---- MODULE Spec2Model ----
(***************************************************************************)
(* A model of the Coreutils-AI-navigator pipeline:                         *)
(*   - the C structural extractor   (src/c_ast_parser.py),                 *)
(*   - the index builders           (src/build_vector_db_cobol.py,         *)
(*                                   src/utils/vector_store.py),           *)
(*   - the retrieval operations     (src/utils/tools.py,                   *)
(*                                   src/utils/vector_store.py).           *)
(* Each program has its own initial condition and next-state relation over *)
(* the shared variables; a program that is not running keeps its           *)
(* variables at their idle values.                                         *)
(*                                                                         *)
(* Conventions.  Python's None is the empty sequence << >> and a present   *)
(* value x is << x >>.  A dict is a TLA+ function whose DOMAIN is its key   *)
(* set, so "key in d" is key \in DOMAIN d.  A str of the index builders is  *)
(* a sequence of pieces (Text): source bodies are spelled character by     *)
(* character, literals and names are one piece each, "" is << >> and       *)
(* concatenation is \o.                                                    *)
(***************************************************************************)
EXTENDS Integers, Sequences, FiniteSets, TLC

VARIABLES
    \* ---- c_ast_parser.capture_objects_from_file
    file_path,           \* the file_path argument
    nodes,               \* the sibling nodes of the parsed file, in source order
    call_seq,            \* callee identifiers of the call statements of a function body
    match_i,             \* position of the for loop in the match sequence
    captured_functions,
    captured_structs,
    captured_enums,
    captured_comments,
    extract_pc,          \* "idle" | "loop" | "returned" | "raised"
    \* ---- c_ast_parser.main
    walk,                \* the files os.walk yields below folder_path, in walk order
    file_names,          \* the paths main collects
    file_i,              \* position of the for loop in file_names
    list_of_captured_functions,
    list_of_captured_structs,
    list_of_captured_enums,
    list_of_captured_comments,
    main_pc,             \* "idle" | "files" | "comments" | "functions" | "done" | "raised"
    \* ---- cobol_ast_parser: the run over the files
    cobol_walk,          \* the files os.walk yields below folder_path, in walk order
    cobol_file_names,    \* the paths the run collects
    cobol_i,             \* position of the for loop in cobol_file_names
    total_docs,
    count,
    error_count,
    cobol_pc,            \* "idle" | "files" | "done" | "raised"
    \* ---- cobol_ast_parser.extract_paragraphs_from_ast
    siblings,            \* the named siblings that follow the paragraph header
    next_node,           \* position of next_node among them, 0 for None
    paragraph_statements,
    paragraph,           \* the Captured_Paragraph made of the statements, or None
    scan_pc,             \* "idle" | "loop" | "break" | "returned"
    \* ---- the index builders: build_database, get_vector_store, get_vector_store_readme
    entry,               \* the entry point that runs, or "idle"
    data,                \* build_database: the segments loaded from JSON_SOURCE
    captured_items,      \* get_vector_store: the units to index
    readme_files,        \* get_vector_store_readme: the files os.walk yields
    item_i,              \* build_database: position of the for loop in data
    documents,           \* the Document list built so far
    data_with_summary,   \* build_database: the records of the mirrored JSON
    ollama_calls,        \* history: one entry per ollama.chat invocation (item, reply)
    annotations,         \* history: one entry per summary a generate_* call returned
    vector_db,           \* the index FAISS.from_documents constructed, or None
    saved,               \* what save_local has written: records (path, docs)
    mirror,              \* the content of cobol_segments_summary.json, or None
    stdout,              \* what was printed
    index_pc,            \* "idle" | "loop" | "build" | "done" | "raised"
    \* ---- the retrieval operations of utils/tools.py and utils/vector_store.py
    op,                  \* the operation called, or "idle"
    store,               \* the documents of the store, nearest to the query first
    filter_fails,        \* whether the store raises on a search with a filter
    target_type,         \* search_cobol_data: the target_type argument
    searches,            \* history: the similarity_search calls made (k, filtered)
    results,             \* the documents the operation keeps
    answer,              \* the str a tool returns
    search_pc,           \* "idle" | "call" | "returned" | "raised"
    \* ---- reAct_agent.py: the agent graph and the chat loop
    session_messages,    \* st.session_state["messages"]
    checkpoint,          \* the state the checkpointer holds for the session's thread
    graph_pc,            \* "off" | "idle" | "agent" | "tools" | "finalizer" | "END" | "crashed"
    turns,               \* the number of prompts submitted
    start_loop_step,     \* history: loop_step of the thread when the run started
    agent_runs,          \* history: executions of the agent node in the run
    tools_runs,          \* history: executions of the tools node in the run
    routes,              \* history: per agent step, whether tools were requested and
                         \* what navigation_router returned
    model_raised,        \* history: the exception the last model call raised, or None
    node_result,         \* history: the update the last model-calling node returned, or None
    finalizer_call,      \* history: the state's list and the list passed to final_llm
    final_response,      \* the chat loop's final_response
    ended_by             \* history: "none" | "answer" | "finalizer" | "error" | "exception"

extract_vars == << file_path, nodes, call_seq, match_i, captured_functions, captured_structs,
                   captured_enums, captured_comments, extract_pc >>

index_vars == << entry, data, captured_items, readme_files, item_i, documents,
                 data_with_summary, ollama_calls, annotations, vector_db, saved, mirror,
                 stdout, index_pc >>

search_vars == << op, store, filter_fails, target_type, searches, results, answer,
                  search_pc >>

main_vars == << walk, file_names, file_i, list_of_captured_functions,
                list_of_captured_structs, list_of_captured_enums, list_of_captured_comments,
                main_pc >>

cobol_vars == << cobol_walk, cobol_file_names, cobol_i, total_docs, count, error_count,
                 cobol_pc, siblings, next_node, paragraph_statements, paragraph, scan_pc >>

agent_vars == << session_messages, checkpoint, graph_pc, turns, start_loop_step, agent_runs,
                 tools_runs, routes, model_raised, node_result, finalizer_call,
                 final_response, ended_by >>

vars == << extract_vars, main_vars, cobol_vars, index_vars, search_vars, agent_vars >>

\* ------------------------------------------------------------------ bounds
MaxNodes == 3
MaxCalls == 3
MaxItems == 2
MaxDocs == 3
MaxFiles == 3
MaxSiblings == 4
MaxTurns == 2

\* ------------------------------------------------------------- generalities
None == << >>
Some(x) == << x >>

Range(s) == { s[i] : i \in 1..Len(s) }

SeqsUpTo(S, n) == UNION { [1..k -> S] : k \in 0..n }

\* needle in hay, for two str
Contains(hay, needle) ==
    \E i \in 0..(Len(hay) - Len(needle)) : SubSeq(hay, i + 1, i + Len(needle)) = needle

\* s.split(sep), sep one character: never empty, "" gives [""].
RECURSIVE SplitOn(_, _)
SplitOn(s, sep) ==
    IF \A i \in 1..Len(s) : s[i] # sep
    THEN << s >>
    ELSE LET k == CHOOSE i \in 1..Len(s) : s[i] = sep /\ \A j \in 1..(i - 1) : s[j] # sep
         IN  << SubSeq(s, 1, k - 1) >> \o SplitOn(SubSeq(s, k + 1, Len(s)), sep)

\* sep.join(parts)
RECURSIVE Join(_, _)
Join(parts, sep) ==
    IF parts = << >> THEN << >>
    ELSE IF Len(parts) = 1 THEN parts[1]
    ELSE parts[1] \o sep \o Join(Tail(parts), sep)

\* str(n) of a natural number, digit by digit.
DigitChars == << "0", "1", "2", "3", "4", "5", "6", "7", "8", "9" >>

RECURSIVE Str(_)
Str(n) == IF n < 10 THEN << DigitChars[n + 1] >>
          ELSE Str(n \div 10) \o << DigitChars[(n % 10) + 1] >>

\* ------------------------------------------------------ the parsed C file
FILE_PATH == "./coreutils/src/a.c"

Callees == { "helper", "g" }

\* What a top-level node of the file can be: a comment, a struct or an enum
\* specifier with or without a name, a function definition.
FileNodes ==
    { [type |-> "comment", named |-> FALSE],
      [type |-> "struct_specifier", named |-> TRUE],
      [type |-> "struct_specifier", named |-> FALSE],
      [type |-> "enum_specifier", named |-> TRUE],
      [type |-> "enum_specifier", named |-> FALSE],
      [type |-> "function_definition", named |-> TRUE] }

\* node.text is the bytes of the node's source span: the span of the i-th
\* sibling is identified by its position and its node type.
SpanBytes(i) == [bytes |-> << nodes[i].type, "@" >> \o Str(i)]

\* bytes.decode('utf8')
Decode(b) == b.bytes

\* The node object of the i-th sibling.
NodeAt(i) == [idx |-> i, type |-> nodes[i].type, text |-> SpanBytes(i)]

\* An identifier node below a sibling (a name or a callee).
Ident(s) == [idx |-> 0, type |-> "identifier", text |-> [bytes |-> s]]

\* node.prev_sibling
prev_sibling(n) == IF n.idx > 1 THEN Some(NodeAt(n.idx - 1)) ELSE None

\* cursor.matches(root_node) over query_schema: one match per struct, enum,
\* function and comment node, in source order.  An optional capture that did
\* not bind is no key of the match's dict.
MatchOf(i) ==
    LET n == nodes[i] IN
    CASE n.type = "struct_specifier" ->
           [pattern |-> 0,
            caps |-> IF n.named
                     THEN [struct |-> << NodeAt(i) >>, struct_name |-> << Ident("S") >>]
                     ELSE [struct |-> << NodeAt(i) >>]]
      [] n.type = "enum_specifier" ->
           [pattern |-> 1,
            caps |-> IF n.named
                     THEN [enum |-> << NodeAt(i) >>, enum_name |-> << Ident("E") >>]
                     ELSE [enum |-> << NodeAt(i) >>]]
      [] n.type = "function_definition" ->
           [pattern |-> 2,
            caps |-> IF call_seq # << >>
                     THEN [func_body |-> << NodeAt(i) >>, func_name |-> << Ident("find") >>,
                           called_func |-> [k \in 1..Len(call_seq) |-> Ident(call_seq[k])]]
                     ELSE [func_body |-> << NodeAt(i) >>, func_name |-> << Ident("find") >>]]
      [] OTHER ->
           [pattern |-> 3, caps |-> [comments |-> << NodeAt(i) >>]]

captures == [i \in 1..Len(nodes) |-> MatchOf(i)]

\* ----------------------------------------- capture_objects_from_file: parts

\* Lines 75-79, 93-96, 110-113: the comment of a unit.
LeadingCommentAnyDistance(curr_node) ==
    LET back == { j \in 1..(curr_node.idx - 1) : nodes[j].type = "comment" } IN
    IF back # {}
    THEN Some(Decode(NodeAt(CHOOSE j \in back : \A k \in back : k <= j).text))
    ELSE None

LeadingComment(curr_node) ==
    LET prev_node == prev_sibling(curr_node) IN
    IF prev_node # None /\ prev_node[1].type = "comment"
    THEN Some(Decode(prev_node[1].text))
    ELSE None

\* Lines 81-84 and 98-101: the name of a struct or an enum.
NameOrEmpty(caps, key, sentinel) ==
    IF key \notin DOMAIN caps THEN "" ELSE Decode(caps[key][1].text)

NameOrSentinel(caps, key, sentinel) ==
    IF key \notin DOMAIN caps THEN sentinel ELSE Decode(caps[key][1].text)

\* Lines 121-122: one iteration of the loop over the called_func captures.
AppendAlways(called_funcs, called_func_name) ==
    Append(called_funcs, called_func_name)

AppendCallee(called_funcs, called_func_name) ==
    IF called_func_name \notin Range(called_funcs)
    THEN Append(called_funcs, called_func_name)
    ELSE called_funcs

\* Lines 117-122: the loop over the called_func captures.
RECURSIVE CollectCallees(_, _)
CollectCallees(called_funcs, rest) ==
    IF rest = << >> THEN called_funcs
    ELSE CollectCallees(AppendCallee(called_funcs, Decode(rest[1].text)), Tail(rest))

CalledFuncs(caps) ==
    IF "called_func" \in DOMAIN caps
    THEN CollectCallees(<< >>, caps.called_func)
    ELSE << >>

\* utils/models.py: the captured units.
Captured_Struct(name, body, file_name, comment) ==
    [struct_name |-> name, struct_body |-> body, comment |-> comment, file_name |-> file_name]

Captured_Enum(name, body, file_name, comment) ==
    [enum_name |-> name, enum_body |-> body, comment |-> comment, file_name |-> file_name]

Captured_Function(name, body, called_functions, file_name, comment) ==
    [function_name |-> name, function_body |-> body, called_functions |-> called_functions,
     comment |-> comment, file_name |-> file_name]

Captured_Comment_Unplaced(text, file_name) ==
    [comment_text |-> text, file_name |-> << >>]

Captured_Comment(text, file_name) ==
    [comment_text |-> text, file_name |-> file_name]

\* ------------------------------------------- a program that is not running
IdleAgent ==
    /\ session_messages = << >>
    /\ checkpoint = << >>
    /\ graph_pc = "off"
    /\ turns = 0
    /\ start_loop_step = 0
    /\ agent_runs = 0
    /\ tools_runs = 0
    /\ routes = << >>
    /\ model_raised = << >>
    /\ node_result = << >>
    /\ finalizer_call = << >>
    /\ final_response = << >>
    /\ ended_by = "none"

IdleSearch ==
    /\ op = "idle"
    /\ store = << >>
    /\ filter_fails = FALSE
    /\ target_type = "idle"
    /\ searches = << >>
    /\ results = << >>
    /\ answer = << >>
    /\ search_pc = "idle"

IdleIndex ==
    /\ entry = "idle"
    /\ data = << >>
    /\ captured_items = << >>
    /\ readme_files = << >>
    /\ item_i = 0
    /\ documents = << >>
    /\ data_with_summary = << >>
    /\ ollama_calls = << >>
    /\ annotations = << >>
    /\ vector_db = << >>
    /\ saved = << >>
    /\ mirror = << >>
    /\ stdout = << >>
    /\ index_pc = "idle"

IdleCobol ==
    /\ cobol_walk = << >>
    /\ cobol_file_names = << >>
    /\ cobol_i = 0
    /\ total_docs = << >>
    /\ count = 0
    /\ error_count = 0
    /\ cobol_pc = "idle"

IdleScan ==
    /\ siblings = << >>
    /\ next_node = 0
    /\ paragraph_statements = << >>
    /\ paragraph = << >>
    /\ scan_pc = "idle"

IdleMain ==
    /\ walk = << >>
    /\ file_names = << >>
    /\ file_i = 0
    /\ list_of_captured_functions = << >>
    /\ list_of_captured_structs = << >>
    /\ list_of_captured_enums = << >>
    /\ list_of_captured_comments = << >>
    /\ main_pc = "idle"

IdleExtract ==
    /\ file_path = << >>
    /\ nodes = << >>
    /\ call_seq = << >>
    /\ match_i = 0
    /\ captured_functions = << >>
    /\ captured_structs = << >>
    /\ captured_enums = << >>
    /\ captured_comments = << >>
    /\ extract_pc = "idle"

\* ------------------------------------------------------------ the extractor

\* Lines 54-68: the file is read and parsed, the query is run, the lists are empty.
InitExtract ==
    /\ file_path = FILE_PATH
    /\ nodes \in SeqsUpTo(FileNodes, MaxNodes)
    /\ call_seq \in SeqsUpTo(Callees, MaxCalls)
    /\ match_i = 1
    /\ captured_functions = << >>
    /\ captured_structs = << >>
    /\ captured_enums = << >>
    /\ captured_comments = << >>
    /\ extract_pc = "loop"
    /\ IdleMain
    /\ IdleCobol
    /\ IdleScan
    /\ IdleIndex
    /\ IdleSearch
    /\ IdleAgent

\* Lines 70-131: one iteration of "for capture in captures".
ProcessMatch ==
    /\ extract_pc = "loop"
    /\ match_i <= Len(captures)
    /\ LET capture == captures[match_i]
           caps == capture.caps
       IN
       CASE capture.pattern = 0 ->
              /\ captured_structs' = Append(captured_structs,
                     Captured_Struct(NameOrSentinel(caps, "struct_name", "STRUCT_WITH_NO_NAME"),
                                     Decode(caps.struct[1].text), file_path,
                                     LeadingComment(caps.struct[1])))
              /\ UNCHANGED << captured_functions, captured_enums, captured_comments >>
         [] capture.pattern = 1 ->
              /\ captured_enums' = Append(captured_enums,
                     Captured_Enum(NameOrSentinel(caps, "enum_name", "ENUM_WITH_NO_NAME"),
                                   Decode(caps.enum[1].text), file_path,
                                   LeadingComment(caps.enum[1])))
              /\ UNCHANGED << captured_functions, captured_structs, captured_comments >>
         [] capture.pattern = 2 ->
              /\ captured_functions' = Append(captured_functions,
                     Captured_Function(Decode(caps.func_name[1].text),
                                       Decode(caps.func_body[1].text),
                                       CalledFuncs(caps), file_path,
                                       LeadingComment(caps.func_body[1])))
              /\ UNCHANGED << captured_structs, captured_enums, captured_comments >>
         [] OTHER ->
              /\ captured_comments' = captured_comments \o
                     [k \in 1..Len(caps.comments) |->
                         Captured_Comment(Decode(caps.comments[k].text), file_path)]
              /\ UNCHANGED << captured_functions, captured_structs, captured_enums >>
    /\ match_i' = match_i + 1
    /\ UNCHANGED << file_path, nodes, call_seq, extract_pc >>
    /\ UNCHANGED << main_vars, index_vars, search_vars, cobol_vars, agent_vars >>

\* Line 133: the loop is over and the four lists are returned.
ReturnCaptured ==
    /\ extract_pc = "loop"
    /\ match_i > Len(captures)
    /\ extract_pc' = "returned"
    /\ UNCHANGED << file_path, nodes, call_seq, match_i, captured_functions,
                    captured_structs, captured_enums, captured_comments >>
    /\ UNCHANGED << main_vars, index_vars, search_vars, cobol_vars, agent_vars >>

NextExtract == ProcessMatch \/ ReturnCaptured

SpecExtract == InitExtract /\ [][NextExtract]_vars

\* ----------------------------------------------- properties of the extractor

\* The position among the siblings of the j-th node of a type.
NthOfType(type, j) ==
    CHOOSE i \in 1..Len(nodes) :
        /\ nodes[i].type = type
        /\ Cardinality({ k \in 1..i : nodes[k].type = type }) = j

\* How many of the matches already processed were of a type.
ProcessedOfType(type) ==
    Cardinality({ k \in 1..(match_i - 1) : nodes[k].type = type })

\* The position at which x first occurs in s.
FirstAt(s, x) == CHOOSE i \in 1..Len(s) : s[i] = x /\ \A k \in 1..(i - 1) : s[k] # x

\* The captures of s that repeat an earlier one.
Repeats(s) == { i \in 1..Len(s) : \E k \in 1..(i - 1) : s[k] = s[i] }

\* C1: the called_functions of every captured function hold each callee of the
\* match's called_func captures exactly once, in order of first occurrence: N
\* captures of which M repeat an earlier one give N - M entries, and no capture
\* gives the empty list.
C1_CalleesDeduplicatedInOrder ==
    \A j \in 1..Len(captured_functions) :
        LET cf == captured_functions[j].called_functions IN
        /\ Range(cf) = Range(call_seq)
        /\ Len(cf) = Len(call_seq) - Cardinality(Repeats(call_seq))
        /\ \A p, q \in 1..Len(cf) :
              p < q => FirstAt(call_seq, cf[p]) < FirstAt(call_seq, cf[q])
        /\ (call_seq = << >> => cf = << >>)

C1_Witness ==
    /\ extract_pc = "returned"
    /\ call_seq = << "helper", "g", "helper" >>
    /\ \E j \in 1..Len(captured_functions) :
          captured_functions[j].called_functions = << "helper", "g" >>

\* C2: a struct match without a struct_name capture gives a unit named
\* STRUCT_WITH_NO_NAME and an enum match without an enum_name capture a unit
\* named ENUM_WITH_NO_NAME; the name is never empty and every such match
\* processed has given its unit (nothing was raised or skipped on the way).
C2_AnonymousNamesAreSentinels ==
    /\ Len(captured_structs) = ProcessedOfType("struct_specifier")
    /\ Len(captured_enums) = ProcessedOfType("enum_specifier")
    /\ \A j \in 1..Len(captured_structs) :
          /\ captured_structs[j].struct_name # ""
          /\ ~nodes[NthOfType("struct_specifier", j)].named
                => captured_structs[j].struct_name = "STRUCT_WITH_NO_NAME"
    /\ \A j \in 1..Len(captured_enums) :
          /\ captured_enums[j].enum_name # ""
          /\ ~nodes[NthOfType("enum_specifier", j)].named
                => captured_enums[j].enum_name = "ENUM_WITH_NO_NAME"

C2_Witness ==
    /\ extract_pc = "returned"
    /\ \E j \in 1..Len(captured_structs) :
          /\ ~nodes[NthOfType("struct_specifier", j)].named
          /\ captured_structs[j].struct_name = "STRUCT_WITH_NO_NAME"
    /\ \E j \in 1..Len(captured_enums) :
          /\ ~nodes[NthOfType("enum_specifier", j)].named
          /\ captured_enums[j].enum_name = "ENUM_WITH_NO_NAME"

\* The comment a unit defined by the i-th sibling is to carry: the text of the
\* sibling just before it when that sibling is a comment, and None otherwise.
AdjacentComment(i) ==
    IF i > 1 /\ nodes[i - 1].type = "comment"
    THEN << << "comment", "@" >> \o Str(i - 1) >>
    ELSE << >>

\* C3: the comment of every struct, enum and function unit is the text of the
\* defining node's immediate previous sibling exactly when that sibling exists
\* and is a comment, and None in every other case, whatever lies further back.
C3_CommentIsImmediatePreviousSibling ==
    /\ \A j \in 1..Len(captured_structs) :
          captured_structs[j].comment = AdjacentComment(NthOfType("struct_specifier", j))
    /\ \A j \in 1..Len(captured_enums) :
          captured_enums[j].comment = AdjacentComment(NthOfType("enum_specifier", j))
    /\ \A j \in 1..Len(captured_functions) :
          captured_functions[j].comment = AdjacentComment(NthOfType("function_definition", j))

\* A comment, a struct that carries it, and a function that carries none
\* although a comment lies two siblings back.
C3_Witness ==
    /\ extract_pc = "returned"
    /\ Len(nodes) = 3
    /\ nodes[1].type = "comment"
    /\ nodes[2].type = "struct_specifier"
    /\ nodes[3].type = "function_definition"
    /\ captured_structs[1].comment = << << "comment", "@", "1" >> >>
    /\ captured_functions[1].comment = << >>

\* =========================================================================
\*                           THE INDEX BUILDERS
\* =========================================================================

\* ------------------------------------------------ build_database: its input
DB_PATH == << "cics_genapp_index_procedure_with_summary" >>

NL == "\n"

\* Source lines, spelled character by character.
L_EXIT == << "E", "X", "I", "T", "." >>
L_GO_A_EXIT == << "G", "O", " ", "A", "-", "E", "X", "I", "T", "." >>
L_MOVE == << "M", "O", "V", "E", " ", "A", "." >>
L_ADD == << "A", "D", "D", " ", "B", "." >>
L_01 == << "0", "1", " ", "A", "." >>
L_05 == << "0", "5", " ", "B", "." >>

Segment(type, name, content, lineNumber) ==
    [type |-> << type >>, name |-> name, content |-> content,
     fileName |-> << "LGAPOL01.cbl" >>, lineNumber |-> lineNumber]

\* The records {type, name, content, fileName, lineNumber} the run can be given.
Segments ==
    { \* three lines, the last of them EXIT.
      Segment("PARAGRAPH", << "MAINLINE" >>, L_MOVE \o << NL >> \o L_ADD \o << NL >> \o L_EXIT, 12),
      \* nothing but the exit marker
      Segment("PARAGRAPH", << "A-EXIT" >>, L_EXIT, 40),
      \* one statement that names a paragraph A-EXIT
      Segment("PARAGRAPH", << "CHECK" >>, L_GO_A_EXIT, 57),
      \* one statement, no EXIT in it
      Segment("SECTION", << "INIT" >>, L_MOVE, 8),
      Segment("DATA_LAYOUT", << "CUST" >>, L_01 \o << NL >> \o L_05, 3),
      \* a record group without a name
      Segment("DATA_LAYOUT", << >>, L_01, 5),
      Segment("LINKAGE_SECTION", << "LINK" >>, L_EXIT, 20) }

\* ------------------------------------------------- the summarization model

\* What ollama.chat can do: raise, or return a message whose content is not
\* JSON, or is a JSON object.  The schema passed as format names the fields and
\* no length for the lists.
FIVE_WORDS == << << "k1" >>, << "k2" >>, << "k3" >>, << "k4" >>, << "k5" >> >>

ChatRaises == [raises |-> TRUE, json |-> FALSE, obj |-> << >>]
ChatNotJson == [raises |-> FALSE, json |-> FALSE, obj |-> << >>]
ChatObject(o) == [raises |-> FALSE, json |-> TRUE, obj |-> o]

CodeReplies ==
    { ChatRaises,
      ChatNotJson,
      ChatObject([business_intent |-> << "Validates the customer." >>]),
      ChatObject([business_intent |-> << "Validates the customer." >>,
                  technical_action |-> << "DB2 Select Statement" >>,
                  keywords |-> << << "k1" >> >>]),
      ChatObject([business_intent |-> << "Validates the customer." >>,
                  technical_action |-> << "DB2 Select Statement" >>,
                  keywords |-> FIVE_WORDS]) }

DataReplies ==
    { ChatRaises,
      ChatNotJson,
      ChatObject([structure_name |-> << "CUSTOMER-RECORD" >>]),
      ChatObject([structure_name |-> << "CUSTOMER-RECORD" >>,
                  description |-> << "Holds the customer." >>,
                  key_fields |-> << << "k1" >> >>]),
      ChatObject([structure_name |-> << "CUSTOMER-RECORD" >>,
                  description |-> << "Holds the customer." >>,
                  key_fields |-> FIVE_WORDS]) }

\* BaseModel.model_validate_json: the fields of the schema, all required; a
\* result [ok |-> FALSE] stands for the ValidationError raised.
model_validate_json(fields, reply) ==
    IF reply.json /\ fields \subseteq DOMAIN reply.obj
    THEN [ok |-> TRUE, val |-> [f \in fields |-> reply.obj[f]]]
    ELSE [ok |-> FALSE, val |-> << >>]

CobolSummaryFields == { "business_intent", "technical_action", "keywords" }
DataStructureSummaryFields == { "structure_name", "description", "key_fields" }

\* Lines 112-120 and 145-152: the body of the try block.  [ok |-> FALSE] stands
\* for an exception, of ollama.chat or of the validation.
TrySummary(fields, reply) ==
    IF reply.raises THEN [ok |-> FALSE, val |-> << >>]
    ELSE model_validate_json(fields, reply)

\* A generate_summary_with_ollama without its except branch: the exception of
\* ollama.chat or of the validation reaches build_database.
generate_summary_propagates(code_content, reply) ==
    LET r == TrySummary(CobolSummaryFields, reply) IN
    [raised |-> ~r.ok, summary |-> r.val, chats |-> 1, fallback |-> FALSE, printed |-> << >>]

\* Lines 89-127.  The result names the summary returned (or that the call
\* raised), how often ollama.chat was invoked and what was printed.
generate_summary_with_ollama(code_content, reply) ==
    LET r == TrySummary(CobolSummaryFields, reply) IN
    IF r.ok
    THEN [raised |-> FALSE, summary |-> r.val, chats |-> 1, fallback |-> FALSE,
          printed |-> << >>]
    ELSE [raised |-> FALSE,
          summary |-> [business_intent |-> << "Legacy COBOL Logic" >>,
                       technical_action |-> << "Unknown Operation" >>,
                       keywords |-> << << "COBOL" >>, << "Legacy" >> >>],
          chats |-> 1, fallback |-> TRUE, printed |-> << "Ollama Error" >>]

\* Lines 129-161.
generate_data_summary(structure_name, cobol_code, reply) ==
    LET r == TrySummary(DataStructureSummaryFields, reply) IN
    IF r.ok
    THEN [raised |-> FALSE, summary |-> r.val, chats |-> 1, fallback |-> FALSE,
          printed |-> << >>]
    ELSE [raised |-> FALSE,
          summary |-> [structure_name |-> structure_name,
                       description |-> << "Legacy data structure." >>,
                       key_fields |-> << >>],
          chats |-> 1, fallback |-> TRUE, printed |-> << "Error processing" >>]

\* --------------------------------------------------- build_database: parts

\* Line 183: "LINKAGE_SECTION" in item["type"] or "DATA_LAYOUT" in item["type"]
IsDataType(type) ==
    Contains(type, << "LINKAGE_SECTION" >>) \/ Contains(type, << "DATA_LAYOUT" >>)

\* Line 208: len(raw_code.split('\n')) < 3 and "EXIT" in raw_code
MIN_LINES == 3

SkipsSegment(raw_code) ==
    /\ Len(SplitOn(raw_code, NL)) < MIN_LINES
    /\ Contains(raw_code, << "E", "X", "I", "T" >>)

\* Lines 188-193.
VectorText(item, summary) ==
    << "Below is a \"" >> \o item.name \o << "\" in the file \"" >> \o item.fileName
        \o << "\"\n" >>
    \o << "Structure: " >> \o summary.structure_name \o << "\n" >>
    \o << "Description: " >> \o summary.description \o << "\n" >>
    \o << "Fields: " >> \o Join(summary.key_fields, << ", " >>)

\* Lines 194-202.
DataDocument(item, summary) ==
    [page_content |-> VectorText(item, summary),
     metadata |-> [original_code |-> item.content,
                   file_name |-> item.fileName,
                   div_name |-> item.name,
                   type |-> item.type]]

\* Lines 214-219.
VectorSearchText(item, summary) ==
    << "The below code segment is a \"" >> \o item.type \o << "\" named \"" >> \o item.name
        \o << "\" which is in the file \"" >> \o item.fileName
        \o << "\" at line number \"" >> \o Str(item.lineNumber) \o << "\"\n" >>
    \o << "Business Intent: " >> \o summary.business_intent \o << "\n" >>
    \o << "Technical Action: " >> \o summary.technical_action \o << "\n" >>
    \o << "Keywords: " >> \o Join(summary.keywords, << ", " >>)

\* Lines 221-232.
CodeDocument(item, summary) ==
    [page_content |-> VectorSearchText(item, summary),
     metadata |-> [file_name |-> item.fileName,
                   div_name |-> item.name,
                   type |-> item.type,
                   line_number |-> item.lineNumber,
                   original_code |-> item.content,
                   intent_raw |-> summary.business_intent,
                   action_raw |-> summary.technical_action]]

\* Lines 182, 203, 233: data_item = item.copy(); data_item["summary"] = text
WithContentAsSummary(item, text) == [summary |-> item.content] @@ item

WithSummary(item, text) == [summary |-> text] @@ item

\* ------------------------------------------------------------------ FAISS

\* What FAISS.from_documents can do with a batch: for a batch that is not
\* empty, an index of its documents; for an empty batch the library either
\* raises (no embedding to take the dimension from) or hands back an index of
\* nothing, as the installed version has it.
FromDocuments(docs) ==
    IF docs # << >>
    THEN { [raises |-> FALSE, index |-> [docs |-> docs]] }
    ELSE { [raises |-> TRUE, index |-> [docs |-> << >>]],
           [raises |-> FALSE, index |-> [docs |-> << >>]] }

\* vector_store.save_local(path)
SaveLocal(path, index) == Append(saved, [path |-> path, docs |-> index.docs])

\* --------------------------------------------------------- build_database

\* Lines 164-178: JSON_SOURCE exists and is loaded, the lists are empty.
InitBuildDatabase ==
    /\ entry = "build_database"
    /\ data \in SeqsUpTo(Segments, MaxItems)
    /\ captured_items = << >>
    /\ readme_files = << >>
    /\ item_i = 1
    /\ documents = << >>
    /\ data_with_summary = << >>
    /\ ollama_calls = << >>
    /\ annotations = << >>
    /\ vector_db = None
    /\ saved = << >>
    /\ mirror = None
    /\ stdout = << >>
    /\ index_pc = "loop"

\* Lines 180-235: one iteration of "for item in tqdm(data)".
BuildItem ==
    /\ entry = "build_database"
    /\ index_pc = "loop"
    /\ item_i <= Len(data)
    /\ LET item == data[item_i] IN
       IF IsDataType(item.type)
       THEN \E reply \in DataReplies :
              LET g == generate_data_summary(item.name, item.content, reply) IN
              /\ ollama_calls' = ollama_calls \o
                     [k \in 1..g.chats |-> [item |-> item_i, reply |-> reply]]
              /\ stdout' = stdout \o g.printed
              /\ IF g.raised
                 THEN /\ index_pc' = "raised"
                      /\ UNCHANGED << item_i, documents, data_with_summary, annotations >>
                 ELSE /\ annotations' = Append(annotations,
                             [item |-> item_i, kind |-> "data", fallback |-> g.fallback,
                              summary |-> g.summary])
                      /\ documents' = Append(documents, DataDocument(item, g.summary))
                      /\ data_with_summary' = Append(data_with_summary,
                             WithSummary(item, VectorText(item, g.summary)))
                      /\ item_i' = item_i + 1
                      /\ UNCHANGED index_pc
       ELSE IF SkipsSegment(item.content)
       THEN /\ item_i' = item_i + 1
            /\ UNCHANGED << documents, data_with_summary, ollama_calls, annotations,
                            stdout, index_pc >>
       ELSE \E reply \in CodeReplies :
              LET g == generate_summary_with_ollama(item.content, reply) IN
              /\ ollama_calls' = ollama_calls \o
                     [k \in 1..g.chats |-> [item |-> item_i, reply |-> reply]]
              /\ stdout' = stdout \o g.printed
              /\ IF g.raised
                 THEN /\ index_pc' = "raised"
                      /\ UNCHANGED << item_i, documents, data_with_summary, annotations >>
                 ELSE /\ annotations' = Append(annotations,
                             [item |-> item_i, kind |-> "code", fallback |-> g.fallback,
                              summary |-> g.summary])
                      /\ documents' = Append(documents, CodeDocument(item, g.summary))
                      /\ data_with_summary' = Append(data_with_summary,
                             WithSummary(item, VectorSearchText(item, g.summary)))
                      /\ item_i' = item_i + 1
                      /\ UNCHANGED index_pc
    /\ UNCHANGED << entry, data, captured_items, readme_files, vector_db, saved, mirror >>
    /\ UNCHANGED << extract_vars, main_vars, search_vars, cobol_vars, agent_vars >>

\* Lines 237-247: the index is built and saved if there is a document, and the
\* mirrored JSON is written.
SaveDatabase ==
    /\ entry = "build_database"
    /\ index_pc = "loop"
    /\ item_i > Len(data)
    /\ IF documents # << >>
       THEN \E r \in FromDocuments(documents) :
              /\ vector_db' = Some(r.index)
              /\ saved' = SaveLocal(DB_PATH, r.index)
              /\ stdout' = stdout \o << "Embedding", "Success" >>
       ELSE /\ stdout' = Append(stdout, "No documents were processed.")
            /\ UNCHANGED << vector_db, saved >>
    /\ mirror' = Some(data_with_summary)
    /\ index_pc' = "done"
    /\ UNCHANGED << entry, data, captured_items, readme_files, item_i, documents,
                    data_with_summary, ollama_calls, annotations >>
    /\ UNCHANGED << extract_vars, main_vars, search_vars, cobol_vars, agent_vars >>

\* -------------------------------------- utils/vector_store.get_vector_store

\* The units get_vector_store can be given: one of each captured kind.
F_BODY == << "f", "(", ")", "{", "g", "(", ")", ";", "}" >>
S_BODY == << "s", "t", "r", "u", "c", "t", "{", "}" >>
E_BODY == << "e", "n", "u", "m", "{", "}" >>

CapturedUnits ==
    { Captured_Function("find", F_BODY, << "g" >>, FILE_PATH, Some(<< "/* finds x */" >>)),
      Captured_Struct("STRUCT_WITH_NO_NAME", S_BODY, FILE_PATH, None),
      Captured_Enum("E", E_BODY, FILE_PATH, None),
      Captured_Comment(<< "/* finds x */" >>, FILE_PATH) }

\* utils/models.py: get_content of each unit class.
get_content(item) ==
    CASE "function_body" \in DOMAIN item -> item.function_body
      [] "struct_body" \in DOMAIN item -> item.struct_body
      [] "enum_body" \in DOMAIN item -> item.enum_body
      [] OTHER -> item.comment_text

\* utils/models.py: get_metadata of each unit class.
get_metadata(item) ==
    CASE "function_body" \in DOMAIN item ->
           [function_name |-> item.function_name,
            called_functions |-> item.called_functions,
            document_type |-> << "function_definition" >>,
            function_comment |-> item.comment,
            file_name |-> item.file_name]
      [] "struct_body" \in DOMAIN item ->
           [struct_name |-> item.struct_name,
            document_type |-> << "struct_definition" >>,
            struct_comment |-> item.comment,
            file_name |-> item.file_name]
      [] "enum_body" \in DOMAIN item ->
           [enum_name |-> item.enum_name,
            document_type |-> << "enum_definition" >>,
            enum_comment |-> item.comment,
            file_name |-> item.file_name]
      [] OTHER ->
           [document_type |-> << "comment" >>, file_name |-> item.file_name]

\* Lines 22-24 of vector_store.py: the Document of one item.
UnitDocument(item) == [page_content |-> get_content(item), metadata |-> get_metadata(item)]

\* Lines 20-25 of vector_store.py: one Document per item.
UnitDocuments(items) == [k \in 1..Len(items) |-> UnitDocument(items[k])]

INDEX_NAME == << "vector_db_index/coreutils_index_functions" >>

\* get_vector_store(captured_items, index_name, load_from_disk = False)
InitGetVectorStore ==
    /\ entry = "get_vector_store"
    /\ data = << >>
    /\ captured_items \in SeqsUpTo(CapturedUnits, MaxItems)
    /\ readme_files = << >>
    /\ item_i = 0
    /\ documents = << >>
    /\ data_with_summary = << >>
    /\ ollama_calls = << >>
    /\ annotations = << >>
    /\ vector_db = None
    /\ saved = << >>
    /\ mirror = None
    /\ stdout = << >>
    /\ index_pc = "build"

\* Lines 20-30 of vector_store.py.
GetVectorStore ==
    /\ entry = "get_vector_store"
    /\ index_pc = "build"
    /\ LET docs == UnitDocuments(captured_items) IN
       /\ documents' = docs
       /\ stdout' = Append(stdout, "Building index...")
       /\ \E r \in FromDocuments(docs) :
             IF r.raises
             THEN /\ index_pc' = "raised"
                  /\ UNCHANGED << vector_db, saved >>
             ELSE /\ vector_db' = Some(r.index)
                  /\ saved' = SaveLocal(INDEX_NAME, r.index)
                  /\ index_pc' = "done"
    /\ UNCHANGED << entry, data, captured_items, readme_files, item_i, data_with_summary,
                    ollama_calls, annotations, mirror >>
    /\ UNCHANGED << extract_vars, main_vars, search_vars, cobol_vars, agent_vars >>

\* ------------------------------- utils/vector_store.get_vector_store_readme
REPO_PATH == << "./cics-genapp/docs" >>
README_INDEX_NAME == << "vector_db_index/coreutils_index_readmes" >>

\* str.lower(), on the letters the file names use.
LowerChar(c) ==
    CASE c = "R" -> "r" [] c = "E" -> "e" [] c = "A" -> "a" [] c = "D" -> "d"
      [] c = "M" -> "m" [] OTHER -> c

Lower(s) == [i \in 1..Len(s) |-> LowerChar(s[i])]

\* not content.strip(): nothing but white space
IsBlank(content) == \A i \in 1..Len(content) : content[i] \in { " ", NL, "\t" }

\* The files os.walk can yield.  chunks is what splitter.split_text gives for the
\* content; readable is whether open and read succeed.
ReadmeFiles ==
    { [file |-> << "R", "E", "A", "D", "M", "E" >>, readable |-> TRUE,
       content |-> << "#", " ", "T", NL, NL, "b" >>,
       chunks |-> << << "#", " ", "T" >>, << "b" >> >>],
      [file |-> << "r", "e", "a", "d", "m", "e", ".", "m", "d" >>, readable |-> TRUE,
       content |-> << " ", NL >>, chunks |-> << >>],
      [file |-> << "R", "e", "a", "d", "m", "e", "-", "x" >>, readable |-> FALSE,
       content |-> << >>, chunks |-> << >>],
      [file |-> << "m", "a", "i", "n", ".", "c" >>, readable |-> TRUE,
       content |-> << "x" >>, chunks |-> << << "x" >> >>] }

\* Lines 66-94 of vector_store.py: the documents of one file.
ReadmeFileDocs(f) ==
    IF ~Contains(Lower(f.file), << "r", "e", "a", "d", "m", "e" >>) THEN << >>
    ELSE IF ~f.readable THEN << >>
    ELSE IF IsBlank(f.content) THEN << >>
    ELSE [k \in 1..Len(f.chunks) |->
            [page_content |-> f.chunks[k],
             metadata |-> [source |-> REPO_PATH \o << "/" >> \o f.file,
                           file_name |-> f.file,
                           type |-> << "readme_documentation" >>]]]

\* Lines 59-94 of vector_store.py: the walk over the files.
RECURSIVE ReadmeDocs(_)
ReadmeDocs(files) ==
    IF files = << >> THEN << >>
    ELSE ReadmeFileDocs(files[1]) \o ReadmeDocs(Tail(files))

InitGetVectorStoreReadme ==
    /\ entry = "get_vector_store_readme"
    /\ data = << >>
    /\ captured_items = << >>
    /\ readme_files \in SeqsUpTo(ReadmeFiles, MaxItems)
    /\ item_i = 0
    /\ documents = << >>
    /\ data_with_summary = << >>
    /\ ollama_calls = << >>
    /\ annotations = << >>
    /\ vector_db = None
    /\ saved = << >>
    /\ mirror = None
    /\ stdout = << >>
    /\ index_pc = "build"

\* Lines 50-98 of vector_store.py.
GetVectorStoreReadme ==
    /\ entry = "get_vector_store_readme"
    /\ index_pc = "build"
    /\ LET docs == ReadmeDocs(readme_files) IN
       /\ documents' = docs
       /\ stdout' = stdout \o
             [k \in 1..Cardinality({ j \in 1..Len(readme_files) :
                                        /\ Contains(Lower(readme_files[j].file),
                                                    << "r", "e", "a", "d", "m", "e" >>)
                                        /\ ~readme_files[j].readable }) |-> "Skipping"]
       /\ \E r \in FromDocuments(docs) :
             IF r.raises
             THEN /\ index_pc' = "raised"
                  /\ UNCHANGED << vector_db, saved >>
             ELSE /\ vector_db' = Some(r.index)
                  /\ saved' = SaveLocal(README_INDEX_NAME, r.index)
                  /\ index_pc' = "done"
    /\ UNCHANGED << entry, data, captured_items, readme_files, item_i, data_with_summary,
                    ollama_calls, annotations, mirror >>
    /\ UNCHANGED << extract_vars, main_vars, search_vars, cobol_vars, agent_vars >>

\* ------------------------------------------- the three builders as one system
InitIndex ==
    /\ IdleExtract
    /\ IdleMain
    /\ IdleCobol
    /\ IdleScan
    /\ IdleSearch
    /\ IdleAgent
    /\ \/ InitBuildDatabase
       \/ InitGetVectorStore
       \/ InitGetVectorStoreReadme

NextIndex == BuildItem \/ SaveDatabase \/ GetVectorStore \/ GetVectorStoreReadme

SpecIndex == InitIndex /\ [][NextIndex]_vars

\* ------------------------------------------ properties of the index builders

\* The segments the loop of build_database has been through.
Processed == 1..(item_i - 1)

\* The ollama.chat invocations made for the i-th segment.
ChatsFor(i) == { k \in 1..Len(ollama_calls) : ollama_calls[k].item = i }

\* The annotation records produced for the i-th segment.
AnnotationsFor(i) == { k \in 1..Len(annotations) : annotations[k].item = i }

\* A segment the run does not skip.
Eligible(i) == IsDataType(data[i].type) \/ ~SkipsSegment(data[i].content)

MandatoryFields(kind) ==
    IF kind = "code" THEN { "business_intent", "technical_action", "keywords" }
    ELSE { "structure_name", "description", "key_fields" }

\* C4: in build_database every eligible segment gets exactly one invocation of
\* the summarization model and exactly one annotation record with every
\* mandatory field, whatever the model does (a valid reply, malformed data, an
\* exception); no reply aborts the run, and the segments after it are processed.
C4_OneCallOneRecordPerEligibleUnit ==
    entry = "build_database" =>
        /\ index_pc # "raised"
        /\ Len(documents) = Cardinality({ i \in Processed : Eligible(i) })
        /\ Len(annotations) = Len(documents)
        /\ \A i \in Processed :
              IF Eligible(i)
              THEN /\ Cardinality(ChatsFor(i)) = 1
                   /\ Cardinality(AnnotationsFor(i)) = 1
                   /\ \A k \in AnnotationsFor(i) :
                         MandatoryFields(annotations[k].kind) \subseteq
                             DOMAIN annotations[k].summary
              ELSE ChatsFor(i) = {} /\ AnnotationsFor(i) = {}
        /\ (index_pc = "done" => item_i = Len(data) + 1)

\* The model raises on the first segment and returns malformed data on the
\* second: both get their fallback record and the run ends normally.
C4_Witness ==
    /\ entry = "build_database"
    /\ index_pc = "done"
    /\ Len(data) = 2
    /\ Len(ollama_calls) = 2
    /\ ollama_calls[1].reply.raises
    /\ ~ollama_calls[2].reply.raises /\ ~ollama_calls[2].reply.json
    /\ Len(annotations) = 2
    /\ annotations[1].fallback /\ annotations[2].fallback

\* C5: every fallback record has a non-empty value in every field: the
\* business_intent, technical_action and keywords of a code summary, the
\* structure_name, description and key_fields of a data summary.
C5_FallbackFieldsNonEmpty ==
    \A k \in 1..Len(annotations) :
        annotations[k].fallback =>
            \A f \in MandatoryFields(annotations[k].kind) :
                /\ f \in DOMAIN annotations[k].summary
                /\ annotations[k].summary[f] # << >>

\* C6: every annotation record that is indexed has 5 to 8 keywords (a code
\* summary) or 5 to 10 key_fields (a data summary).
C6_CardinalityBounds ==
    \A k \in 1..Len(annotations) :
        IF annotations[k].kind = "code"
        THEN Len(annotations[k].summary.keywords) \in 5..8
        ELSE Len(annotations[k].summary.key_fields) \in 5..10

\* s.strip() of the blanks at both ends.
RECURSIVE Strip(_)
Strip(s) ==
    IF s = << >> THEN s
    ELSE IF s[1] = " " THEN Strip(Tail(s))
    ELSE IF s[Len(s)] = " " THEN Strip(SubSeq(s, 1, Len(s) - 1))
    ELSE s

\* A body that is nothing but the exit marker: each of its lines is blank or
\* EXIT (with or without its period), and one of them is the marker.
IsExitMarker(line) ==
    Strip(line) \in { << "E", "X", "I", "T", "." >>, << "E", "X", "I", "T" >> }

BareExit(raw) ==
    LET lines == SplitOn(raw, NL) IN
    /\ \A k \in 1..Len(lines) : Strip(lines[k]) = << >> \/ IsExitMarker(lines[k])
    /\ \E k \in 1..Len(lines) : IsExitMarker(lines[k])

\* C7: build_database skips a segment (no call, no index record, no mirrored
\* record) exactly when its body has fewer than 3 lines and is nothing but a
\* bare exit marker, whatever the type of the segment.
C7_SkipsExactlyBareExits ==
    entry = "build_database" =>
        \A i \in Processed :
            (ChatsFor(i) = {} /\ AnnotationsFor(i) = {})
                <=> (Len(SplitOn(data[i].content, NL)) < 3 /\ BareExit(data[i].content))

\* The unit the k-th document was built from, and its raw source.
CodeTypes == { << "PARAGRAPH" >>, << "SECTION" >> }
CodeUnitKeys == { "function_body", "struct_body", "enum_body" }

RawInMetadata(doc, raw) ==
    "original_code" \in DOMAIN doc.metadata /\ doc.metadata.original_code = raw

\* C8: the page_content of an index record built from a code-type unit never
\* contains the unit's raw source, and the raw source is in the record's
\* metadata, in build_database and in get_vector_store alike.
C8_PageContentHoldsNoRawCode ==
    /\ entry = "build_database" =>
          \A k \in 1..Len(documents) :
              LET item == data[annotations[k].item] IN
              item.type \in CodeTypes =>
                  /\ ~Contains(documents[k].page_content, item.content)
                  /\ RawInMetadata(documents[k], item.content)
    /\ entry = "get_vector_store" =>
          \A k \in 1..Len(documents) :
              LET item == captured_items[k] IN
              DOMAIN item \cap CodeUnitKeys # {} =>
                  /\ ~Contains(documents[k].page_content, get_content(item))
                  /\ RawInMetadata(documents[k], get_content(item))

\* C9: a build whose document batch is empty ends normally with no index
\* constructed and none saved, at every entry point.
C9_EmptyBatchSkipsPersistence ==
    (index_pc \in { "done", "raised" } /\ documents = << >>) =>
        /\ index_pc = "done"
        /\ vector_db = None
        /\ saved = << >>

\* The position in data of the segment the k-th document was built from.
KeptAt(k) ==
    CHOOSE i \in Processed :
        /\ Eligible(i)
        /\ Cardinality({ m \in Processed : Eligible(m) /\ m < i }) = k - 1

\* A record of the mirror repeats every field of the segment.
CarriesFieldsOf(record, item) ==
    /\ DOMAIN item \subseteq DOMAIN record
    /\ [f \in DOMAIN item |-> record[f]] = item

\* C16 as stated: the mirrored JSON has one record for every segment of the
\* input, each with the fields of its segment and a summary equal to the
\* page_content of its document, and the records and the documents agree in
\* number and order.
C16_MirrorHoldsEveryUnit ==
    entry = "build_database" =>
        /\ Len(data_with_summary) = Cardinality(Processed)
        /\ Len(data_with_summary) = Len(documents)
        /\ \A k \in 1..Len(data_with_summary) :
              /\ CarriesFieldsOf(data_with_summary[k], data[k])
              /\ data_with_summary[k].summary = documents[k].page_content
        /\ index_pc = "done" =>
              /\ mirror = Some(data_with_summary)
              /\ Len(data_with_summary) = Len(data)

\* C16 (amended): the mirrored JSON has one record for every segment of the
\* input that build_database does not skip, each with the fields of its segment
\* and a summary equal to the page_content of the document of that segment; a
\* skipped segment has neither a record nor a document, and the records and the
\* documents agree in number and order.
C16_MirrorHoldsEveryIndexedUnit ==
    entry = "build_database" =>
        /\ Len(data_with_summary) = Cardinality({ i \in Processed : Eligible(i) })
        /\ Len(data_with_summary) = Len(documents)
        /\ \A k \in 1..Len(data_with_summary) :
              /\ CarriesFieldsOf(data_with_summary[k], data[KeptAt(k)])
              /\ DOMAIN data_with_summary[k] = DOMAIN data[KeptAt(k)] \cup { "summary" }
              /\ data_with_summary[k].summary = documents[k].page_content
              /\ documents[k].metadata.original_code = data[KeptAt(k)].content
              /\ documents[k].metadata.div_name = data[KeptAt(k)].name
        /\ index_pc = "done" =>
              /\ mirror = Some(data_with_summary)
              /\ Len(data_with_summary)
                    = Cardinality({ i \in 1..Len(data) : Eligible(i) })

\* A bare exit paragraph, skipped, and after it a data layout: the mirror holds
\* the one record of the layout.
C16_Witness ==
    /\ entry = "build_database"
    /\ index_pc = "done"
    /\ Len(data) = 2
    /\ ~Eligible(1)
    /\ IsDataType(data[2].type)
    /\ Len(mirror[1]) = 1
    /\ mirror[1][1].name = data[2].name
    /\ mirror[1][1].summary = documents[1].page_content

\* The texts of an annotation record, field by field.
AnnotationTexts(summary) ==
    IF "keywords" \in DOMAIN summary
    THEN { summary.business_intent, summary.technical_action } \cup Range(summary.keywords)
    ELSE { summary.structure_name, summary.description } \cup Range(summary.key_fields)

\* C17: the text synthesized for every indexed segment holds the segment's file
\* name, name, type and line number and every field of its annotation record,
\* and the same segment with the same record gives the same text.
C17_SynthesizedTextHoldsContextAndAnnotation ==
    entry = "build_database" =>
        /\ \A k \in 1..Len(documents) :
              LET item == data[KeptAt(k)]
                  text == documents[k].page_content
              IN
              /\ Contains(text, item.fileName)
              /\ Contains(text, item.name)
              /\ Contains(text, item.type)
              /\ Contains(text, Str(item.lineNumber))
              /\ \A t \in AnnotationTexts(annotations[k].summary) : Contains(text, t)
        /\ \A j, k \in 1..Len(documents) :
              (data[KeptAt(j)] = data[KeptAt(k)]
                  /\ annotations[j].summary = annotations[k].summary)
                  => documents[j].page_content = documents[k].page_content

\* =========================================================================
\*                          c_ast_parser.main
\* =========================================================================
FOLDER_PATH == << "./coreutils/src" >>

\* The names os.walk yields, in walk order, spelled character by character.
WalkNames ==
    << << "a", ".", "c" >>, << "N", ".", "m", "d" >>, << "b", ".", "h" >>,
       << "d", ".", "c" >>, << "e", ".", "h" >> >>

\* What a file can hold: bytes that are, or are not, UTF-8, and for those that
\* are, the sibling nodes of its tree and the callees of its function bodies.
SourceFiles ==
    { [utf8 |-> TRUE, call_seq |-> << "g" >>,
       nodes |-> << [type |-> "comment", named |-> FALSE],
                    [type |-> "function_definition", named |-> TRUE] >>],
      [utf8 |-> TRUE, call_seq |-> << >>,
       nodes |-> << [type |-> "struct_specifier", named |-> FALSE],
                    [type |-> "enum_specifier", named |-> TRUE] >>],
      [utf8 |-> TRUE, call_seq |-> << >>,
       nodes |-> << [type |-> "function_definition", named |-> TRUE] >>],
      \* no struct, enum, function or comment
      [utf8 |-> TRUE, call_seq |-> << >>, nodes |-> << >>],
      \* a byte that is no UTF-8
      [utf8 |-> FALSE, call_seq |-> << >>, nodes |-> << >>] }

\* str.endswith
EndsWith(s, suffix) ==
    /\ Len(s) >= Len(suffix)
    /\ SubSeq(s, Len(s) - Len(suffix) + 1, Len(s)) = suffix

\* Line 144: root+'/'+file
PathOf(file) == FOLDER_PATH \o << "/" >> \o file

\* Lines 140-144: the paths of the .c and .h files, in walk order.
CollectFileNames(walked) ==
    LET kept == SelectSeq(walked, LAMBDA w : \/ EndsWith(w.file, << ".", "c" >>)
                                             \/ EndsWith(w.file, << ".", "h" >>))
    IN  [k \in 1..Len(kept) |-> PathOf(kept[k].file)]

\* Lines 31-41: open(file_path, 'r') and read() decode the bytes of the file; a
\* byte sequence that is no UTF-8 raises UnicodeDecodeError (None here).
read_c_code_from_file(path) ==
    LET w == CHOOSE x \in Range(walk) : PathOf(x.file) = path IN
    IF w.content.utf8 THEN Some(w.content) ELSE None

\* list.extend
ExtendFront(list, more) == more \o list

Extend(list, more) == list \o more

\* Line 169: the items of the second index.
AllItems(fs, ss, es, cs) == fs \o ss \o es \o cs

CodeItems(fs, ss, es, cs) == fs \o ss \o es

COMMENTS_INDEX_NAME == << "vector_db_index/coreutils_index_comments" >>

\* Lines 138-149.
InitMain ==
    /\ \E n \in 0..MaxFiles : \E c \in [1..n -> SourceFiles] :
          walk = [i \in 1..n |-> [file |-> WalkNames[i], content |-> c[i]]]
    /\ file_names = CollectFileNames(walk)
    /\ file_i = 1
    /\ list_of_captured_functions = << >>
    /\ list_of_captured_structs = << >>
    /\ list_of_captured_enums = << >>
    /\ list_of_captured_comments = << >>
    /\ main_pc = "files"
    /\ IdleExtract
    /\ IdleCobol
    /\ IdleScan
    /\ IdleIndex
    /\ IdleSearch
    /\ IdleAgent

\* Lines 151-152 and 54-68: main calls capture_objects_from_file, which reads
\* and parses the file and runs the query.
ReadFile ==
    /\ main_pc = "files"
    /\ extract_pc = "idle"
    /\ file_i <= Len(file_names)
    /\ LET c_code == read_c_code_from_file(file_names[file_i]) IN
       IF c_code = None
       THEN /\ extract_pc' = "raised"
            /\ main_pc' = "raised"
            /\ UNCHANGED << file_path, nodes, call_seq, match_i, captured_functions,
                            captured_structs, captured_enums, captured_comments >>
       ELSE /\ file_path' = file_names[file_i]
            /\ nodes' = c_code[1].nodes
            /\ call_seq' = c_code[1].call_seq
            /\ match_i' = 1
            /\ captured_functions' = << >>
            /\ captured_structs' = << >>
            /\ captured_enums' = << >>
            /\ captured_comments' = << >>
            /\ extract_pc' = "loop"
            /\ UNCHANGED main_pc
    /\ UNCHANGED << walk, file_names, file_i, list_of_captured_functions,
                    list_of_captured_structs, list_of_captured_enums,
                    list_of_captured_comments >>
    /\ UNCHANGED << index_vars, search_vars, cobol_vars, agent_vars >>

\* Lines 152-156: the lists of the file are added to the lists of the run.
ExtendLists ==
    /\ main_pc = "files"
    /\ extract_pc = "returned"
    /\ list_of_captured_functions' = Extend(list_of_captured_functions, captured_functions)
    /\ list_of_captured_structs' = Extend(list_of_captured_structs, captured_structs)
    /\ list_of_captured_enums' = Extend(list_of_captured_enums, captured_enums)
    /\ list_of_captured_comments' = Extend(list_of_captured_comments, captured_comments)
    /\ file_i' = file_i + 1
    /\ file_path' = << >>
    /\ nodes' = << >>
    /\ call_seq' = << >>
    /\ match_i' = 0
    /\ captured_functions' = << >>
    /\ captured_structs' = << >>
    /\ captured_enums' = << >>
    /\ captured_comments' = << >>
    /\ extract_pc' = "idle"
    /\ UNCHANGED << walk, file_names, main_pc >>
    /\ UNCHANGED << index_vars, search_vars, cobol_vars, agent_vars >>

\* Lines 163-166 and get_vector_store: the index of the comments.
IndexComments ==
    /\ main_pc = "files"
    /\ extract_pc = "idle"
    /\ file_i > Len(file_names)
    /\ \E r \in FromDocuments(UnitDocuments(list_of_captured_comments)) :
          IF r.raises
          THEN /\ main_pc' = "raised"
               /\ UNCHANGED saved
          ELSE /\ saved' = SaveLocal(COMMENTS_INDEX_NAME, r.index)
               /\ main_pc' = "functions"
    /\ UNCHANGED << walk, file_names, file_i, list_of_captured_functions,
                    list_of_captured_structs, list_of_captured_enums,
                    list_of_captured_comments >>
    /\ UNCHANGED << entry, data, captured_items, readme_files, item_i, documents,
                    data_with_summary, ollama_calls, annotations, vector_db, mirror,
                    stdout, index_pc >>
    /\ UNCHANGED << extract_vars, search_vars, cobol_vars, agent_vars >>

\* Lines 168-171 and get_vector_store: the index of the functions, structs and enums.
IndexFunctions ==
    /\ main_pc = "functions"
    /\ LET items == CodeItems(list_of_captured_functions, list_of_captured_structs,
                              list_of_captured_enums, list_of_captured_comments)
       IN \E r \in FromDocuments(UnitDocuments(items)) :
             IF r.raises
             THEN /\ main_pc' = "raised"
                  /\ UNCHANGED saved
             ELSE /\ saved' = SaveLocal(INDEX_NAME, r.index)
                  /\ main_pc' = "done"
    /\ UNCHANGED << walk, file_names, file_i, list_of_captured_functions,
                    list_of_captured_structs, list_of_captured_enums,
                    list_of_captured_comments >>
    /\ UNCHANGED << entry, data, captured_items, readme_files, item_i, documents,
                    data_with_summary, ollama_calls, annotations, vector_db, mirror,
                    stdout, index_pc >>
    /\ UNCHANGED << extract_vars, search_vars, cobol_vars, agent_vars >>

NextMain ==
    ReadFile \/ ProcessMatch \/ ReturnCaptured \/ ExtendLists \/ IndexComments
    \/ IndexFunctions

SpecMain == InitMain /\ [][NextMain]_vars

\* --------------------------------------------------- properties of main

\* The content of the file a collected path names.
ContentAt(k) ==
    (CHOOSE x \in Range(walk) : PathOf(x.file) = file_names[k]).content

\* C13: a text that cannot be decoded costs no more than its unit: the
\* failure never leaves capture_objects_from_file, main goes on to the files
\* that remain, and the units of every file whose text can be decoded are in
\* the lists of the run.
C13_DecodeFailureSkipsOnlyTheUnit ==
    /\ extract_pc # "raised"
    /\ main_pc = "raised" => file_i > Len(file_names)
    /\ main_pc \in { "functions", "done" } =>
          \A k \in 1..Len(file_names) :
              \A i \in 1..Len(ContentAt(k).nodes) :
                  ContentAt(k).nodes[i].type = "function_definition" =>
                      \E j \in 1..Len(list_of_captured_functions) :
                          list_of_captured_functions[j].file_name = file_names[k]

\* What the text of the i-th sibling decodes to.
TextOfNode(type, i) == << type, "@" >> \o Str(i)

\* The positions of the nodes of a type among the siblings, in source order.
RECURSIVE PositionsOfType(_, _, _)
PositionsOfType(ns, type, from) ==
    IF from > Len(ns) THEN << >>
    ELSE (IF ns[from].type = type THEN << from >> ELSE << >>)
         \o PositionsOfType(ns, type, from + 1)

\* C18: while a file is processed and when its lists are returned, every
\* struct, enum and function match processed has given exactly one unit and
\* every comment node one captured comment, each unit names the file it comes
\* from, and a file without a match gives four empty lists and raises nothing.
C18_OneUnitPerMatchTaggedWithItsFile ==
    /\ extract_pc \in { "loop", "returned" } =>
          /\ file_path = file_names[file_i]
          /\ Len(captured_functions) = ProcessedOfType("function_definition")
          /\ Len(captured_structs) = ProcessedOfType("struct_specifier")
          /\ Len(captured_enums) = ProcessedOfType("enum_specifier")
          /\ Len(captured_comments) = ProcessedOfType("comment")
          /\ \A j \in 1..Len(captured_functions) :
                captured_functions[j].file_name = file_names[file_i]
          /\ \A j \in 1..Len(captured_structs) :
                captured_structs[j].file_name = file_names[file_i]
          /\ \A j \in 1..Len(captured_enums) :
                captured_enums[j].file_name = file_names[file_i]
          /\ \A j \in 1..Len(captured_comments) :
                captured_comments[j].file_name = file_names[file_i]
    /\ extract_pc = "returned" => match_i = Len(nodes) + 1
    /\ (extract_pc = "returned" /\ nodes = << >>) =>
          /\ captured_functions = << >>
          /\ captured_structs = << >>
          /\ captured_enums = << >>
          /\ captured_comments = << >>
    /\ (extract_pc = "raised" /\ file_i \in 1..Len(file_names)) =>
          ~ContentAt(file_i).utf8

\* A second file without a match has returned its empty lists after a first
\* file gave a function and a comment.
C18_Witness ==
    /\ extract_pc = "returned"
    /\ file_i = 2
    /\ nodes = << >>
    /\ captured_functions = << >>
    /\ captured_comments = << >>
    /\ Len(list_of_captured_functions) = 1
    /\ Len(list_of_captured_comments) = 1

\* The (file, text) pairs of the nodes of a type in the first n files, file by
\* file and in source order within a file.
RECURSIVE ExpectedOfType(_, _)
ExpectedOfType(type, n) ==
    IF n = 0 THEN << >>
    ELSE LET pos == PositionsOfType(ContentAt(n).nodes, type, 1) IN
         ExpectedOfType(type, n - 1)
         \o [k \in 1..Len(pos) |-> [file |-> file_names[n], text |-> TextOfNode(type, pos[k])]]

\* How many files main has finished.
FilesDone == IF file_i > Len(file_names) THEN Len(file_names) ELSE file_i - 1

SavedDocs(name) ==
    IF \E k \in 1..Len(saved) : saved[k].path = name
    THEN saved[CHOOSE k \in 1..Len(saved) : saved[k].path = name].docs
    ELSE << >>

\* How often a text of a file is among documents.
TimesIn(docs, text, file) ==
    Cardinality({ k \in 1..Len(docs) :
                    docs[k].page_content = text /\ docs[k].metadata.file_name = file })

COBOL_FOLDER_PATH == << "./cics-genapp/src" >>

\* The names os.walk yields, in walk order: a stem and its extension.
CobolWalkNames ==
    << << "README", ".md" >>, << "LGAPOL01", ".cbl" >>, << "LGACUS01", ".cbl" >>,
       << "LGAPDB01", ".cbl" >>, << "LGDPOL01", ".cbl" >>, << "LGIPOL01", ".cbl" >> >>

\* The matches of query_paragraph_section over the tree of a file, in the order
\* the cursor yields them: pattern 0 is a procedure_division, 1 an ERROR node.
CobolTrees == SeqsUpTo({ 0, 1 }, 2)

\* Lines 156-160: the paths of the .cbl files, in walk order.
CollectCobolNames(walked) ==
    LET kept == SelectSeq(walked, LAMBDA w : EndsWith(w.file, << ".cbl" >>))
    IN  [k \in 1..Len(kept) |-> COBOL_FOLDER_PATH \o << "/" >> \o kept[k].file]

\* os.path.basename
Basename(path) ==
    LET slashes == { i \in 1..Len(path) : path[i] = "/" } IN
    IF slashes = {} THEN path
    ELSE SubSeq(path, (CHOOSE i \in slashes : \A j \in slashes : j <= i) + 1, Len(path))

\* utils/models.py
Captured_Procedure(file_name, body) == [file_name |-> file_name, body |-> body]

\* Lines 62-71: the loop over the matches.  The result is what the loop leaves:
\* whether it returned None at an error node, and whether node was bound.
RECURSIVE ProcLoop(_, _)
ProcLoop(proc_nodes, bound) ==
    IF proc_nodes = << >> THEN [returned |-> FALSE, bound |-> bound]
    ELSE IF proc_nodes[1] = 1 THEN [returned |-> TRUE, bound |-> bound]
    ELSE ProcLoop(Tail(proc_nodes), TRUE)

\* Lines 56-77.  node_list stays empty, so the statements joined are "".  A
\* tree without a procedure_division and without an error node leaves node
\* unbound, and "if not node" raises UnboundLocalError.
extract_ignoring_error_nodes(proc_nodes, file_name) ==
    IF 0 \in Range(proc_nodes)
    THEN [raised |-> FALSE, value |-> Some(Captured_Procedure(file_name, << >>))]
    ELSE [raised |-> TRUE, value |-> None]

extract_procedure_division_from_ast(proc_nodes, file_name) ==
    LET l == ProcLoop(proc_nodes, FALSE) IN
    IF l.returned THEN [raised |-> FALSE, value |-> None]
    ELSE IF ~l.bound THEN [raised |-> TRUE, value |-> None]
    ELSE [raised |-> FALSE,
          value |-> Some(Captured_Procedure(file_name, Join(<< >>, << NL >>)))]

\* read_cobol_code_from_file and the parse: the tree of the file a path names.
CobolTreeAt(path) ==
    (CHOOSE w \in Range(cobol_walk) : COBOL_FOLDER_PATH \o << "/" >> \o w.file = path).tree

\* Lines 155-167.
InitCobol ==
    /\ \E n \in 0..(MaxFiles + 1) : \E t \in [1..n -> CobolTrees] :
          cobol_walk = [i \in 1..n |-> [file |-> CobolWalkNames[i], tree |-> t[i]]]
    /\ cobol_file_names = CollectCobolNames(cobol_walk)
    /\ cobol_i = 1
    /\ total_docs = << >>
    /\ count = 0
    /\ error_count = 0
    /\ cobol_pc = "files"
    /\ IdleScan
    /\ IdleExtract
    /\ IdleMain
    /\ IdleIndex
    /\ IdleSearch
    /\ IdleAgent

\* Lines 168-176: one iteration of "for file_name in file_names".
CobolFile ==
    /\ cobol_pc = "files"
    /\ cobol_i <= Len(cobol_file_names)
    /\ LET file_name == cobol_file_names[cobol_i]
           r == extract_procedure_division_from_ast(CobolTreeAt(file_name),
                                                    Basename(file_name))
       IN
       IF r.raised
       THEN /\ cobol_pc' = "raised"
            /\ UNCHANGED << cobol_i, total_docs, count, error_count >>
       ELSE /\ IF r.value # None
               THEN /\ total_docs' = Append(total_docs, r.value[1])
                    /\ UNCHANGED error_count
               ELSE /\ error_count' = error_count + 1
                    /\ UNCHANGED total_docs
            /\ count' = count + 1
            /\ cobol_i' = cobol_i + 1
            /\ UNCHANGED cobol_pc
    /\ UNCHANGED << cobol_walk, cobol_file_names, siblings, next_node,
                    paragraph_statements, paragraph, scan_pc >>
    /\ UNCHANGED << extract_vars, main_vars, index_vars, search_vars, agent_vars >>

\* Line 178: the loop is over and the totals are printed.
CobolDone ==
    /\ cobol_pc = "files"
    /\ cobol_i > Len(cobol_file_names)
    /\ cobol_pc' = "done"
    /\ UNCHANGED << cobol_walk, cobol_file_names, cobol_i, total_docs, count, error_count,
                    siblings, next_node, paragraph_statements, paragraph, scan_pc >>
    /\ UNCHANGED << extract_vars, main_vars, index_vars, search_vars, agent_vars >>

NextCobol == CobolFile \/ CobolDone

SpecCobol == InitCobol /\ [][NextCobol]_vars

\* ------------------------------------------- properties of the COBOL run

\* The files of the run that the loop has been through.
CobolProcessed == 1..(cobol_i - 1)

HasErrorNode(k) == 1 \in Range(CobolTreeAt(cobol_file_names[k]))

HasProcedureDivision(k) == 0 \in Range(CobolTreeAt(cobol_file_names[k]))

\* The file names of the files among the first n that have no error node.
RECURSIVE CleanFiles(_)
CleanFiles(n) ==
    IF n = 0 THEN << >>
    ELSE CleanFiles(n - 1)
         \o (IF HasErrorNode(n) THEN << >> ELSE << Basename(cobol_file_names[n]) >>)

SiblingTypes == { "move_statement", "exit_statement", "paragraph_header", "section_header" }

\* node.text of the header (position 0) and of the i-th sibling after it.
CobolNodeText(i) ==
    [bytes |-> << (IF i = 0 THEN "paragraph_header" ELSE siblings[i].type), "@" >> \o Str(i)]

\* node.next_named_sibling, as a position; 0 is None.
next_named_sibling(i) == IF i < Len(siblings) THEN i + 1 ELSE 0

\* Line 99: what is done with the text of an exit_statement.
DropExit(statements, text) == statements

KeepExit(statements, text) == Append(statements, text)

\* utils/models.py, lines 32-35.
Captured_Paragraph(file_name, body) ==
    [file_name |-> file_name, body |-> Join(body, << NL >>)]

\* Lines 89-93: the header is the first statement, next_node its next sibling.
InitScan ==
    /\ siblings \in SeqsUpTo([type : SiblingTypes], MaxSiblings)
    /\ next_node = (IF siblings = << >> THEN 0 ELSE 1)
    /\ paragraph_statements = << Decode([bytes |-> << "paragraph_header", "@", "0" >>]) >>
    /\ paragraph = None
    /\ scan_pc = "loop"
    /\ IdleCobol
    /\ IdleExtract
    /\ IdleMain
    /\ IdleIndex
    /\ IdleSearch
    /\ IdleAgent

\* Lines 97-104: one iteration of "while next_node".
ScanStep ==
    /\ scan_pc = "loop"
    /\ next_node # 0
    /\ IF siblings[next_node].type = "exit_statement"
       THEN /\ paragraph_statements' =
                   KeepExit(paragraph_statements, Decode(CobolNodeText(next_node)))
            /\ scan_pc' = "break"
            /\ UNCHANGED next_node
       ELSE IF siblings[next_node].type \in { "paragraph_header", "section_header" }
       THEN /\ scan_pc' = "break"
            /\ UNCHANGED << paragraph_statements, next_node >>
       ELSE /\ paragraph_statements' =
                   Append(paragraph_statements, Decode(CobolNodeText(next_node)))
            /\ next_node' = next_named_sibling(next_node)
            /\ UNCHANGED scan_pc
    /\ UNCHANGED << siblings, paragraph >>
    /\ UNCHANGED << cobol_walk, cobol_file_names, cobol_i, total_docs, count, error_count,
                    cobol_pc >>
    /\ UNCHANGED << extract_vars, main_vars, index_vars, search_vars, agent_vars >>

\* Line 122 and lines 142-143: the statements are returned and the paragraph is
\* made of them.
ScanReturn ==
    /\ \/ scan_pc = "break"
       \/ scan_pc = "loop" /\ next_node = 0
    /\ paragraph' = Some(Captured_Paragraph(<< "test.cob" >>, paragraph_statements))
    /\ scan_pc' = "returned"
    /\ UNCHANGED << siblings, next_node, paragraph_statements >>
    /\ UNCHANGED << cobol_walk, cobol_file_names, cobol_i, total_docs, count, error_count,
                    cobol_pc >>
    /\ UNCHANGED << extract_vars, main_vars, index_vars, search_vars, agent_vars >>

NextScan == ScanStep \/ ScanReturn

SpecScan == InitScan /\ [][NextScan]_vars

\* The loop is a sequential program: a step that can be taken is taken.
SpecScanFair == SpecScan /\ WF_vars(NextScan)

\* ------------------------------------------ properties of the paragraph scan

\* The text a node of a type at a position decodes to.
ScanText(type, i) == << type, "@" >> \o Str(i)

\* The siblings at which the scan stops.
Stops ==
    { i \in 1..Len(siblings) :
        siblings[i].type \in { "exit_statement", "paragraph_header", "section_header" } }

FirstStop == CHOOSE i \in Stops : \A j \in Stops : i <= j

\* The last sibling the body holds.
LastKept ==
    IF Stops = {} THEN Len(siblings)
    ELSE IF siblings[FirstStop].type = "exit_statement" THEN FirstStop
    ELSE FirstStop - 1

ExpectedStatements ==
    << ScanText("paragraph_header", 0) >>
    \o [i \in 1..LastKept |-> ScanText(siblings[i].type, i)]

ScanResultAsClaimed ==
    scan_pc = "returned" =>
        /\ paragraph_statements = ExpectedStatements
        /\ paragraph[1].body = Join(ExpectedStatements, << NL >>)
        /\ (Stops # {} /\ siblings[FirstStop].type = "exit_statement") =>
              paragraph_statements[Len(paragraph_statements)]
                  = ScanText("exit_statement", FirstStop)

QUERY == << "string" >>

\* A summary the summarization model gave for a segment, for the stored documents.
STORED_CODE_SUMMARY ==
    [business_intent |-> << "Validates the customer." >>,
     technical_action |-> << "DB2 Select Statement" >>,
     keywords |-> FIVE_WORDS]

STORED_DATA_SUMMARY ==
    [structure_name |-> << "CUSTOMER-RECORD" >>,
     description |-> << "Holds the customer." >>,
     key_fields |-> FIVE_WORDS]

SegmentNamed(name) == CHOOSE seg \in Segments : seg.name = << name >>

\* The documents a store can hold: what the three builders put into an index.
StoreDocs ==
    { CodeDocument(SegmentNamed("MAINLINE"), STORED_CODE_SUMMARY),
      CodeDocument(SegmentNamed("INIT"), STORED_CODE_SUMMARY),
      DataDocument(SegmentNamed("CUST"), STORED_DATA_SUMMARY),
      DataDocument(SegmentNamed("LINK"), STORED_DATA_SUMMARY) }
    \cup Range(ReadmeDocs(<< CHOOSE f \in ReadmeFiles : Len(f.chunks) = 2 >>))
    \cup { UnitDocument(u) : u \in { v \in CapturedUnits :
                                       DOMAIN v \cap { "function_body", "comment_text" } # {} } }

\* Documents that fill the front of a long store: the chunks of one long README,
\* and the record layouts of one copybook.
ReadmeChunk(k) ==
    [page_content |-> << "chunk " >> \o Str(k),
     metadata |-> [source |-> REPO_PATH \o << "/" >> \o << "README" >>,
                   file_name |-> << "README" >>,
                   type |-> << "readme_documentation" >>]]

LayoutDoc(k) ==
    DataDocument(Segment("DATA_LAYOUT", << "REC-" >> \o Str(k), L_01, k), STORED_DATA_SUMMARY)

\* A filter of similarity_search: {key: value} asks for equality, {key: [values]}
\* for membership; a document without the key never matches.  A filter is
\* (key, allowed values) here, and "none" is no filter.
NoFilter == [key |-> "none", allowed |-> {}]

Matches(doc, filter) ==
    \/ filter.key = "none"
    \/ /\ filter.key \in DOMAIN doc.metadata
       /\ doc.metadata[filter.key] \in filter.allowed

Take(s, n) == SubSeq(s, 1, IF Len(s) < n THEN Len(s) ELSE n)

Keep(s, filter) == SelectSeq(s, LAMBDA doc : Matches(doc, filter))

\* FAISS.similarity_search(query, k, filter, fetch_k): without a filter the k
\* nearest documents; with one, those of the fetch_k nearest that match, cut to k.
FAISS_FETCH_K == 20

similarity_search(k, filter, fetch_k) ==
    IF filter.key = "none" THEN Take(store, k)
    ELSE Take(Keep(Take(store, fetch_k), filter), k)

\* --------------------------------------------- tools.search_cobol_logic
LOGIC_K == 4
LOGIC_FALLBACK_K == 10

LogicFilter == [key |-> "type", allowed |-> { << "PARAGRAPH" >>, << "SECTION" >> }]

\* dict.get(key, default)
Get(meta, key, default) == IF key \in DOMAIN meta THEN meta[key] ELSE default

DASHES == << "----------------------------------------" >>

\* Lines 90-109 of tools.py: the entry of one hit.
LogicEntry(doc) ==
    LET meta == doc.metadata IN
    << "File: " >> \o Get(meta, "file_name", << "unknown" >>) \o << " (Line " >>
        \o (IF "line_number" \in DOMAIN meta THEN Str(meta.line_number) ELSE << "?" >>)
        \o << ")\n" >>
    \o << "Type: " >> \o Get(meta, "type", << "PARAGRAPH" >>) \o << ": " >>
        \o Get(meta, "div_name", << "unknown" >>) \o << "\n" >>
    \o << "Intent: " >> \o Get(meta, "intent_raw", << "N/A" >>) \o << "\n" >>
    \o << "Action: " >> \o Get(meta, "action_raw", << "N/A" >>) \o << "\n" >>
    \o << "Code:\n" >> \o Get(meta, "original_code", << "[CODE MISSING]" >>) \o << "\n" >>
    \o DASHES \o << "\n" >>

\* Lines 85-111 of tools.py: the str returned for the hits.
LogicAnswerWithoutSentinel(hits) ==
    Join(<< << "### LOGIC SEARCH RESULTS FOR: '" >> \o QUERY \o << "' ###\n" >> >>
         \o [k \in 1..Len(hits) |-> LogicEntry(hits[k])],
         << "\n" >>)

LogicAnswer(hits) ==
    IF hits = << >> THEN << "No matching logic found." >>
    ELSE LogicAnswerWithoutSentinel(hits)

\* Lines 80-83 of tools.py: what is done when the filtered search raises.
LogicFallback ==
    Take(Keep(similarity_search(LOGIC_FALLBACK_K, NoFilter, FAISS_FETCH_K), LogicFilter),
         LOGIC_K)

\* ------------------------------------------------ tools.search_concepts
CONCEPT_K == 3

\* Lines 49-62 of tools.py: the str returned for the hits.
ConceptAnswerWithoutSentinel(readmes) ==
    Join(<< << "### CONCEPTUAL SEARCH RESULTS FOR: '" >> \o QUERY \o << "' ###\n" >> >>
         \o (IF readmes # << >>
             THEN << << "--- SOURCE: PROJECT DOCUMENTATION (READMEs) ---" >> >>
             ELSE << >>)
         \o [k \in 1..Len(readmes) |->
                << "[" >> \o Get(readmes[k].metadata, "file_name", << "unknown_file" >>)
                \o << "]: " >> \o readmes[k].page_content \o << "\n" >>],
         << "\n" >>)

ConceptAnswer(readmes) ==
    IF readmes = << >> THEN << "No relevant documentation found." >>
    ELSE ConceptAnswerWithoutSentinel(readmes)

\* ---------------------------------------------- tools.search_cobol_data
DATA_FETCH_K == 10
DATA_K == 4

\* Lines 129-135 of tools.py: valid_types.
ValidTypesBoth(t) == { << "LINKAGE_SECTION" >>, << "DATA_LAYOUT" >> }

ValidTypes(t) ==
    IF t = "LINKAGE_SECTION" THEN { << "LINKAGE_SECTION" >> }
    ELSE IF t = "DATA_LAYOUT" THEN { << "DATA_LAYOUT" >> }
    ELSE { << "LINKAGE_SECTION" >>, << "DATA_LAYOUT" >> }

\* Lines 137-142 of tools.py: filtered_docs.
FirstMatching(raw_results, valid_types) ==
    Take(Keep(raw_results, [key |-> "type", allowed |-> valid_types]), DATA_K)

DataFilteredDocs(t) ==
    FirstMatching(similarity_search(DATA_FETCH_K, NoFilter, FAISS_FETCH_K), ValidTypes(t))

\* description.splitlines()[0]: a piece of a template that ends a line is cut
\* at its line feed.
LineEnds == { "\n", "\"\n", ")\n" }

BeforeLineEnd(piece) ==
    CASE piece = "\"\n" -> << "\"" >>
      [] piece = ")\n" -> << ")" >>
      [] OTHER -> << >>

FirstLine(text) ==
    IF \A i \in 1..Len(text) : text[i] \notin LineEnds THEN text
    ELSE LET k == CHOOSE i \in 1..Len(text) :
                      text[i] \in LineEnds /\ \A j \in 1..(i - 1) : text[j] \notin LineEnds
         IN  SubSeq(text, 1, k - 1) \o BeforeLineEnd(text[k])

\* Lines 149-165 of tools.py: the entry of one hit.
DataEntry(doc) ==
    LET meta == doc.metadata
        description == doc.page_content
    IN
    << "Structure: " >> \o Get(meta, "div_name", << "None" >>) \o << "\n" >>
    \o << "Type: " >> \o Get(meta, "type", << "Unknown" >>) \o << "\n" >>
    \o << "Summary: " >>
        \o (IF description # << >> THEN FirstLine(description) ELSE << "N/A" >>)
        \o << "\n" >>
    \o << "Definition:\n" >> \o Get(meta, "original_code", << "[CODE MISSING]" >>)
        \o << "\n" >>
    \o DASHES \o << "\n" >>

\* Lines 144-167 of tools.py: the str returned for the hits.
DataAnswer(hits, t) ==
    IF hits = << >> THEN << "No data structures found for type '", t, "'." >>
    ELSE Join(<< << "### DATA STRUCTURE RESULTS FOR: '" >> \o QUERY \o << "' ###\n" >> >>
              \o [k \in 1..Len(hits) |-> DataEntry(hits[k])],
              << "\n" >>)

\* ------------------------------------------------- the calls of the tools

\* The stores a call can meet: up to MaxDocs documents, behind nothing, behind
\* the chunks of a long README (one short of the ten neighbours a tool looks
\* at, or all ten of them) or behind more record layouts than a tool returns.
StoreFronts ==
    { << >>,
      [k \in 1..(DATA_FETCH_K - 1) |-> ReadmeChunk(k)],
      [k \in 1..DATA_FETCH_K |-> ReadmeChunk(k)],
      [k \in 1..(DATA_K + 1) |-> LayoutDoc(k)] }

Calls ==
    [op : { "search_concepts", "search_cobol_logic", "get_top_readme_docs",
            "get_top_comments", "get_top_functions", "get_top_structs", "get_top_enums",
            "get_top_non_comments" },
     target_type : { "ALL" }]
    \cup [op : { "search_cobol_data" },
          target_type : { "ALL", "LINKAGE_SECTION", "DATA_LAYOUT", "PARAGRAPH" }]

InitSearch ==
    /\ \E call \in Calls : op = call.op /\ target_type = call.target_type
    /\ \E front \in StoreFronts, rest \in SeqsUpTo(StoreDocs, MaxDocs) : store = front \o rest
    /\ filter_fails \in BOOLEAN
    /\ searches = << >>
    /\ results = << >>
    /\ answer = << >>
    /\ search_pc = "call"

\* Lines 73-111 of tools.py.
SearchCobolLogic ==
    /\ op = "search_cobol_logic"
    /\ search_pc = "call"
    /\ LET hits == IF filter_fails THEN LogicFallback
                   ELSE similarity_search(LOGIC_K, LogicFilter, FAISS_FETCH_K)
       IN
       /\ searches' = IF filter_fails
                      THEN << [k |-> LOGIC_K, filtered |-> TRUE],
                              [k |-> LOGIC_FALLBACK_K, filtered |-> FALSE] >>
                      ELSE << [k |-> LOGIC_K, filtered |-> TRUE] >>
       /\ results' = hits
       /\ answer' = LogicAnswer(hits)
    /\ search_pc' = "returned"
    /\ UNCHANGED << op, store, filter_fails, target_type >>
    /\ UNCHANGED << extract_vars, main_vars, index_vars, cobol_vars, agent_vars >>

\* Lines 43-62 of tools.py.
SearchConcepts ==
    /\ op = "search_concepts"
    /\ search_pc = "call"
    /\ LET readmes == similarity_search(CONCEPT_K, NoFilter, FAISS_FETCH_K) IN
       /\ searches' = << [k |-> CONCEPT_K, filtered |-> FALSE] >>
       /\ results' = readmes
       /\ answer' = ConceptAnswer(readmes)
    /\ search_pc' = "returned"
    /\ UNCHANGED << op, store, filter_fails, target_type >>
    /\ UNCHANGED << extract_vars, main_vars, index_vars, cobol_vars, agent_vars >>

\* Lines 126-167 of tools.py.
SearchCobolData ==
    /\ op = "search_cobol_data"
    /\ search_pc = "call"
    /\ LET filtered_docs == DataFilteredDocs(target_type) IN
       /\ searches' = << [k |-> DATA_FETCH_K, filtered |-> FALSE] >>
       /\ results' = filtered_docs
       /\ answer' = DataAnswer(filtered_docs, target_type)
    /\ search_pc' = "returned"
    /\ UNCHANGED << op, store, filter_fails, target_type >>
    /\ UNCHANGED << extract_vars, main_vars, index_vars, cobol_vars, agent_vars >>

\* ---------------------------------------------- vector_store.get_top_*
TOP_K == 2
TOP_FETCH_K == 10

\* Lines 100-152 of vector_store.py: the filter each get_top_* passes.
TopFilter(name) ==
    CASE name = "get_top_readme_docs" ->
           [key |-> "type", allowed |-> { << "readme_documentation" >> }]
      [] name = "get_top_comments" ->
           [key |-> "document_type", allowed |-> { << "comment" >> }]
      [] name = "get_top_functions" ->
           [key |-> "document_type", allowed |-> { << "function_definition" >> }]
      [] name = "get_top_structs" ->
           [key |-> "document_type", allowed |-> { << "struct_definition" >> }]
      [] name = "get_top_enums" ->
           [key |-> "document_type", allowed |-> { << "enum_definition" >> }]
      [] OTHER -> NoFilter

\* Lines 100-152 of vector_store.py: get_top_readme_docs, get_top_comments,
\* get_top_functions, get_top_structs, get_top_enums, get_top_non_comments with
\* their default k and fetch_k.  An exception of the search is not caught.
GetTop ==
    /\ op \notin { "search_concepts", "search_cobol_logic", "search_cobol_data" }
    /\ search_pc = "call"
    /\ LET filter == TopFilter(op) IN
       /\ searches' = << [k |-> TOP_K, filtered |-> filter.key # "none"] >>
       /\ IF filter.key # "none" /\ filter_fails
          THEN /\ search_pc' = "raised"
               /\ UNCHANGED results
          ELSE /\ results' = similarity_search(TOP_K, filter, TOP_FETCH_K)
               /\ search_pc' = "returned"
    /\ UNCHANGED << op, store, filter_fails, target_type, answer >>
    /\ UNCHANGED << extract_vars, main_vars, index_vars, cobol_vars, agent_vars >>

InitRetrieval ==
    /\ IdleExtract
    /\ IdleMain
    /\ IdleCobol
    /\ IdleScan
    /\ IdleIndex
    /\ IdleAgent
    /\ InitSearch

NextSearch == SearchConcepts \/ SearchCobolLogic \/ SearchCobolData \/ GetTop

SpecSearch == InitRetrieval /\ [][NextSearch]_vars

\* ------------------------------------ properties of the retrieval operations

\* The operations that pass a metadata filter to the search.
FilteringOps == { "search_cobol_logic", "get_top_readme_docs", "get_top_comments",
                  "get_top_functions", "get_top_structs", "get_top_enums" }

FilterOf(name) == IF name = "search_cobol_logic" THEN LogicFilter ELSE TopFilter(name)

RequestedCount(name) == IF name = "search_cobol_logic" THEN 4 ELSE 2

\* C10: when the filtered search of an operation that applies a metadata filter
\* raises, the operation returns normally: it has searched again without the
\* filter and with a larger count, and it keeps the hits that match the filter,
\* cut to the count requested.
C10_FilteredFailureFallsBack ==
    (op \in FilteringOps /\ filter_fails /\ search_pc # "call") =>
        /\ search_pc = "returned"
        /\ Len(searches) = 2
        /\ ~searches[2].filtered /\ searches[2].k > searches[1].k
        /\ Len(results) <= RequestedCount(op)
        /\ \A k \in 1..Len(results) : Matches(results[k], FilterOf(op))

\* The tools the agent calls.
AgentTools == { "search_concepts", "search_cobol_logic", "search_cobol_data" }

\* What a tool answers when it has no hit.
SentinelOf(name) ==
    CASE name = "search_concepts" -> << "No relevant documentation found." >>
      [] name = "search_cobol_logic" -> << "No matching logic found." >>
      [] OTHER -> << "No data structures found for type '", target_type, "'." >>

\* The neighbours a tool looks at and the types it keeps of them.
WindowOf(name) ==
    CASE name = "search_concepts" -> 3
      [] name = "search_cobol_logic" -> IF filter_fails THEN 10 ELSE Len(store)
      [] OTHER -> 10

Wanted(name, doc) ==
    CASE name = "search_concepts" -> TRUE
      [] name = "search_cobol_logic" ->
           "type" \in DOMAIN doc.metadata
           /\ doc.metadata.type \in { << "PARAGRAPH" >>, << "SECTION" >> }
      [] OTHER ->
           "type" \in DOMAIN doc.metadata
           /\ doc.metadata.type \in
                 (IF target_type = "LINKAGE_SECTION" THEN { << "LINKAGE_SECTION" >> }
                  ELSE IF target_type = "DATA_LAYOUT" THEN { << "DATA_LAYOUT" >> }
                  ELSE { << "LINKAGE_SECTION" >>, << "DATA_LAYOUT" >> })

\* The positions in the store of the hits that remain for a tool.
Remaining(name) ==
    { i \in 1..Len(store) : i <= WindowOf(name) /\ Wanted(name, store[i]) }

IsHeader(piece) ==
    piece \in { "### CONCEPTUAL SEARCH RESULTS FOR: '", "### LOGIC SEARCH RESULTS FOR: '",
                "### DATA STRUCTURE RESULTS FOR: '" }

OnlyDocumentation ==
    /\ store # << >>
    /\ \A i \in 1..Len(store) :
          /\ "type" \in DOMAIN store[i].metadata
          /\ store[i].metadata.type = << "readme_documentation" >>

\* C11: every call of search_concepts, search_cobol_logic and search_cobol_data
\* returns, and returns a str that is not empty; when no hit remains after
\* filtering the str is the tool's no-results sentinel, without a results
\* header, and otherwise it starts with the header.  A logic search over a
\* store of documentation chunks alone answers the sentinel.
C11_ToolsAnswerTextOrSentinel ==
    (op \in AgentTools /\ search_pc # "call") =>
        /\ search_pc = "returned"
        /\ answer # << >>
        /\ \A i \in 1..Len(answer) : answer[i] # ""
        /\ Remaining(op) = {} =>
              /\ answer = SentinelOf(op)
              /\ \A i \in 1..Len(answer) : ~IsHeader(answer[i])
        /\ Remaining(op) # {} => IsHeader(answer[1]) /\ answer # SentinelOf(op)
        /\ (op = "search_cobol_logic" /\ OnlyDocumentation)
              => answer = << "No matching logic found." >>

\* A logic search, with a filter the store rejects, over documentation only.
C11_Witness ==
    /\ op = "search_cobol_logic"
    /\ search_pc = "returned"
    /\ filter_fails
    /\ OnlyDocumentation
    /\ Len(store) > 10
    /\ answer = << "No matching logic found." >>

\* The j-th smallest of a set of positions.
NthOf(S, j) == CHOOSE i \in S : Cardinality({ m \in S : m < i }) = j - 1

Min(a, b) == IF a < b THEN a ELSE b

\* How many entries an answer holds: every entry ends with a line of dashes.
EntriesOf(text) ==
    Cardinality({ i \in 1..Len(text) : text[i] = "----------------------------------------" })

STEP_LIMIT == 5

\* Line 6: the message classes of langchain_core.
HumanMessage(content) == [type |-> "human", content |-> content, tool_calls |-> << >>]

SystemMessage(content) == [type |-> "system", content |-> content, tool_calls |-> << >>]

AIMessage(content) == [type |-> "ai", content |-> content, tool_calls |-> << >>]

ToolMessage(content, tool_call_id) ==
    [type |-> "tool", content |-> content, tool_calls |-> << >>,
     tool_call_id |-> tool_call_id]

\* Lines 9 and 48: the reducer of the messages channel.  Every message of an
\* update is new, so the update is appended.
add_messages(left, right) == left \o right

\* Lines 47-51: a thread that has no checkpoint yet.
EmptyState ==
    [messages |-> << >>, loop_step |-> 0, terminate |-> FALSE, terminate_message |-> << >>]

\* Lines 37-38: the session history a new session starts with.
GREETING == [role |-> "assistant", content |-> << "Let's start chatting! " >>]

\* Line 246: the prompt of the n-th turn.
PromptOf(n) == << "question " >> \o Str(n)

\* ---------------------------------------------------------- the model calls

\* The exceptions a model call can raise: an API error whose message names a
\* waiting time, an API error whose message names none, and an exception that has
\* no message attribute (any builtin exception).
RATE_LIMIT_TEXT ==
    << "Rate limit reached for model. ", "Please try again in ", "7m12s", ".",
       " Need more tokens? Upgrade today", "." >>

CONNECTION_TEXT == << "Connection error", "." >>

Exceptions ==
    { [has_message |-> TRUE, message |-> RATE_LIMIT_TEXT],
      [has_message |-> TRUE, message |-> CONNECTION_TEXT],
      [has_message |-> FALSE, message |-> << >>] }

\* The tool calls of one response: each has an id of its own.
ToolCalls(run, step, n) ==
    [k \in 1..n |-> [name |-> "search_concepts", id |-> << run, step, k >>]]

\* Line 151: what llm_with_tools.invoke does in the step-th call of a run: it
\* answers, or requests tools (two in an odd step, one in an even step), or
\* raises.
AgentReplies(run, step) ==
    { [raises |-> FALSE, exc |-> << >>, message |-> AIMessage(<< "answer " >> \o Str(run))],
      [raises |-> FALSE, exc |-> << >>,
       message |-> [type |-> "ai", content |-> << "Looking it up." >>,
                    tool_calls |-> ToolCalls(run, step, 1 + (step % 2))]] }
    \cup { [raises |-> TRUE, exc |-> e, message |-> << >>] : e \in Exceptions }

\* Lines 114 and 190: final_llm is bound with tool_choice = "none": it answers
\* without tool calls, or raises.
FinalReplies(run) ==
    { [raises |-> FALSE, exc |-> << >>, message |-> AIMessage(<< "summary " >> \o Str(run))] }
    \cup { [raises |-> TRUE, exc |-> e, message |-> << >>] : e \in Exceptions }

\* ------------------------------------------------------------------ nodes

\* Line 159: re.search(r"Please try again in (.*?)\.", error_message): the
\* group is the text between the first occurrence of the phrase and the first
\* full stop after it.
re_search(error_message) ==
    LET starts == { i \in 1..Len(error_message) : error_message[i] = "Please try again in " }
    IN  IF starts = {}
        THEN None
        ELSE LET p == CHOOSE i \in starts : \A j \in starts : i <= j
                 stops == { i \in (p + 1)..Len(error_message) : error_message[i] = "." }
             IN  IF stops = {}
                 THEN None
                 ELSE LET q == CHOOSE i \in stops : \A j \in stops : i <= j
                      IN  Some(SubSeq(error_message, p + 1, q - 1))

\* Lines 157-166 (and, word for word, 192-201): the except block.  Reading
\* e.message of an exception that has no such attribute raises AttributeError
\* inside the handler, which leaves the node.
except_block(e) ==
    IF ~e.has_message
    THEN [raised |-> TRUE, update |-> << >>]
    ELSE LET match == re_search(e.message)
             message == IF match # None
                        THEN << " System is currently busy. Please wait " >> \o match[1]
                                 \o << " before trying again." >>
                        ELSE << " Rate limit reached. Please try again in a few minutes." >>
         IN  [raised |-> FALSE,
              update |-> [messages |-> << >>, loop_step |-> 0, terminate |-> TRUE,
                          terminate_message |-> message]]

\* Lines 117-166.  What is sent to the model (the system message and the trimmed
\* history) does not constrain the reply, which is the argument here.
agent_node(state, reply) ==
    IF reply.raises
    THEN except_block(reply.exc)
    ELSE LET response == reply.message
             current_step == IF response.tool_calls # << >> THEN state.loop_step ELSE -1
         IN  [raised |-> FALSE,
              update |-> [messages |-> << response >>, loop_step |-> current_step + 1,
                          terminate |-> FALSE, terminate_message |-> << >>]]

\* Lines 80-95, with AI messages kept as they are.
RECURSIVE sanitize_keeping_tool_calls(_)
sanitize_keeping_tool_calls(messages) ==
    IF messages = << >>
    THEN << >>
    ELSE LET m == Head(messages)
             cleaned == sanitize_keeping_tool_calls(Tail(messages))
         IN  IF m.type = "tool" THEN cleaned ELSE << m >> \o cleaned

\* Lines 80-95.
RECURSIVE sanitize(_)
sanitize(messages) ==
    IF messages = << >>
    THEN << >>
    ELSE LET m == Head(messages)
             cleaned == sanitize(Tail(messages))
         IN  IF m.type = "tool"
             THEN cleaned
             ELSE IF m.type = "ai"
                  THEN << AIMessage(m.content) >> \o cleaned
                  ELSE << m >> \o cleaned

\* Lines 180-186.
force_msg ==
    SystemMessage(<< "SYSTEM NOTICE: You have reached the maximum number of reasoning steps." >>)

\* Lines 177-190: the list final_llm.invoke is called with.
FinalizerMessages(state) == sanitize(state.messages) \o << force_msg >>

\* Lines 169-201.
finalizer_node(state, reply) ==
    IF reply.raises
    THEN except_block(reply.exc)
    ELSE [raised |-> FALSE,
          update |-> [messages |-> << reply.message >>, loop_step |-> 0,
                      terminate |-> FALSE, terminate_message |-> << >>]]

\* Lines 203 and 215: ToolNode answers every tool call of the last message with a
\* tool message; a tool that fails is answered with the error text.
tool_node(state) ==
    LET last_message == state.messages[Len(state.messages)]
    IN  [k \in 1..Len(last_message.tool_calls) |->
            ToolMessage(<< "tool output" >>, last_message.tool_calls[k].id)]

\* Lines 57-78.
navigation_router(state) ==
    IF state.terminate
    THEN "END"
    ELSE IF state.loop_step >= STEP_LIMIT
         THEN "finalizer"
         ELSE IF state.messages[Len(state.messages)].tool_calls # << >>
              THEN "tools"
              ELSE "END"

\* Lines 47-51 and 233: the state after a node's update: messages goes through
\* its reducer, the other channels are overwritten.
ApplyUpdate(state, update) ==
    [messages |-> add_messages(state.messages, update.messages),
     loop_step |-> update.loop_step,
     terminate |-> update.terminate,
     terminate_message |-> update.terminate_message]

\* ------------------------------------------------------------ the chat loop

\* Lines 37-41 and 235: the session starts, the thread has no checkpoint.
InitChat ==
    /\ session_messages = << GREETING >>
    /\ checkpoint = EmptyState
    /\ graph_pc = "idle"
    /\ turns = 0
    /\ start_loop_step = 0
    /\ agent_runs = 0
    /\ tools_runs = 0
    /\ routes = << >>
    /\ model_raised = None
    /\ node_result = None
    /\ finalizer_call = None
    /\ final_response = << >>
    /\ ended_by = "none"

\* Lines 245-261 and 216: a prompt is submitted.  The user entry is appended and
\* the graph is streamed with the prompt as input: the input is written to the
\* thread's state and the agent node is next.  A script run that an exception
\* ended leaves the session and the thread as they were at that moment.
Prompt ==
    /\ graph_pc \in { "idle", "crashed" }
    /\ turns < MaxTurns
    /\ turns' = turns + 1
    /\ session_messages' =
           Append(session_messages, [role |-> "user", content |-> PromptOf(turns + 1)])
    /\ checkpoint' = [checkpoint EXCEPT
                         !.messages = add_messages(@, << HumanMessage(PromptOf(turns + 1)) >>)]
    /\ start_loop_step' = checkpoint.loop_step
    /\ agent_runs' = 0
    /\ tools_runs' = 0
    /\ routes' = << >>
    /\ model_raised' = None
    /\ node_result' = None
    /\ finalizer_call' = None
    /\ final_response' = << >>
    /\ ended_by' = "none"
    /\ graph_pc' = "agent"
    /\ UNCHANGED << extract_vars, main_vars, cobol_vars, index_vars, search_vars >>

\* Lines 117-166, 219-227 and 263-275: the agent node runs, its update is written,
\* the router picks what is next, and the chat loop handles the "agent" event.
\* An exception that leaves the node ends the stream and the script run; the
\* thread keeps the state of the last completed step.
AgentStep ==
    /\ graph_pc = "agent"
    /\ \E reply \in AgentReplies(turns, agent_runs + 1) :
          LET result == agent_node(checkpoint, reply)
          IN  /\ agent_runs' = agent_runs + 1
              /\ model_raised' = IF reply.raises THEN Some(reply.exc) ELSE None
              /\ IF result.raised
                 THEN /\ graph_pc' = "crashed"
                      /\ node_result' = None
                      /\ ended_by' = "exception"
                      /\ UNCHANGED << checkpoint, routes, final_response >>
                 ELSE LET state == ApplyUpdate(checkpoint, result.update)
                          msg == result.update.messages[1]
                      IN  /\ checkpoint' = state
                          /\ node_result' = Some(result.update)
                          /\ routes' = Append(routes,
                                        [requested |-> result.update.messages # << >>
                                                       /\ msg.tool_calls # << >>,
                                         next |-> navigation_router(state)])
                          /\ graph_pc' = navigation_router(state)
                          /\ IF result.update.terminate
                             THEN /\ final_response' = result.update.terminate_message
                                  /\ ended_by' = "error"
                             ELSE IF msg.tool_calls # << >>
                                  THEN UNCHANGED << final_response, ended_by >>
                                  ELSE /\ final_response' = msg.content
                                       /\ ended_by' = "answer"
    /\ UNCHANGED << session_messages, turns, start_loop_step, tools_runs, finalizer_call >>
    /\ UNCHANGED << extract_vars, main_vars, cobol_vars, index_vars, search_vars >>

\* Lines 203, 215, 230 and 277-280: the tools node runs and the agent is next.
ToolsStep ==
    /\ graph_pc = "tools"
    /\ checkpoint' = [checkpoint EXCEPT !.messages = add_messages(@, tool_node(checkpoint))]
    /\ tools_runs' = tools_runs + 1
    /\ graph_pc' = "agent"
    /\ UNCHANGED << session_messages, turns, start_loop_step, agent_runs, routes,
                    model_raised, node_result, finalizer_call, final_response, ended_by >>
    /\ UNCHANGED << extract_vars, main_vars, cobol_vars, index_vars, search_vars >>

\* Lines 169-201, 231 and 282-288: the finalizer node runs and the run ends.
FinalizerStep ==
    /\ graph_pc = "finalizer"
    /\ \E reply \in FinalReplies(turns) :
          LET result == finalizer_node(checkpoint, reply)
          IN  /\ finalizer_call' = Some([state_messages |-> checkpoint.messages,
                                         messages |-> FinalizerMessages(checkpoint)])
              /\ model_raised' = IF reply.raises THEN Some(reply.exc) ELSE None
              /\ IF result.raised
                 THEN /\ graph_pc' = "crashed"
                      /\ node_result' = None
                      /\ ended_by' = "exception"
                      /\ UNCHANGED << checkpoint, final_response >>
                 ELSE /\ checkpoint' = ApplyUpdate(checkpoint, result.update)
                      /\ node_result' = Some(result.update)
                      /\ graph_pc' = "END"
                      /\ IF result.update.terminate
                         THEN /\ final_response' = result.update.terminate_message
                              /\ ended_by' = "error"
                         ELSE /\ final_response' = result.update.messages[1].content
                              /\ ended_by' = "finalizer"
    /\ UNCHANGED << session_messages, turns, start_loop_step, agent_runs, tools_runs, routes >>
    /\ UNCHANGED << extract_vars, main_vars, cobol_vars, index_vars, search_vars >>

\* Lines 291-297: the stream is over and the assistant entry is appended.
EndTurn ==
    /\ graph_pc = "END"
    /\ session_messages' =
           Append(session_messages, [role |-> "assistant", content |-> final_response])
    /\ graph_pc' = "idle"
    /\ UNCHANGED << checkpoint, turns, start_loop_step, agent_runs, tools_runs, routes,
                    model_raised, node_result, finalizer_call, final_response, ended_by >>
    /\ UNCHANGED << extract_vars, main_vars, cobol_vars, index_vars, search_vars >>

InitAgent ==
    /\ IdleExtract
    /\ IdleMain
    /\ IdleCobol
    /\ IdleScan
    /\ IdleIndex
    /\ IdleSearch
    /\ InitChat

NextAgent == Prompt \/ AgentStep \/ ToolsStep \/ FinalizerStep \/ EndTurn

SpecAgent == InitAgent /\ [][NextAgent]_vars

\* ------------------------------------------- properties of the agent graph

\* No step of a run is pending: the run reached END, or an exception ended it.
RunOver == graph_pc \in { "END", "idle", "crashed" } /\ turns > 0

\* The run reached END.
RunAtEnd == graph_pc \in { "END", "idle" } /\ turns > 0

\* C21: a run that starts with loop_step 0 executes the tools node at most 4
\* times and the agent node at most 5 times, a 5th consecutive tool request is
\* routed to the finalizer and not to the tools node, and the run stops nowhere
\* but at END.
C21_RunReachesEndWithinStepBudget ==
    (graph_pc # "off" /\ start_loop_step = 0) =>
        /\ tools_runs <= 4
        /\ agent_runs <= 5
        /\ (Len(routes) >= 5 /\ routes[5].requested) => routes[5].next = "finalizer"
        /\ graph_pc # "crashed"

\* C22: when a run is over, whichever way it ended, the checkpointed loop_step is
\* 0, so every run of the thread starts with loop_step 0.
C22_LoopStepIsZeroWhenRunIsOver ==
    /\ RunOver => checkpoint.loop_step = 0
    /\ graph_pc # "off" => start_loop_step = 0

\* The tool calls of the i-th message are answered by the messages that follow it.
Answered(ms, i) ==
    \A k \in 1..Len(ms[i].tool_calls) :
        /\ i + k <= Len(ms)
        /\ ms[i + k].type = "tool"
        /\ ms[i + k].tool_call_id = ms[i].tool_calls[k].id

\* C23: when a run has reached END, every AI message with tool calls in the
\* checkpointed history is followed by the tool messages that answer it.
C23_NoUnansweredToolCallsAtRunEnd ==
    RunAtEnd => \A i \in 1..Len(checkpoint.messages) : Answered(checkpoint.messages, i)

\* C24: when the model call of the agent node or of the finalizer node raises,
\* whatever the exception, the node returns terminate = True, a non-empty
\* terminate_message, no messages and loop_step 0, the run ends, and no exception
\* leaves the node.
C24_ModelExceptionBecomesTerminateResult ==
    model_raised # None =>
        /\ graph_pc # "crashed"
        /\ node_result # None
        /\ node_result[1].terminate
        /\ node_result[1].terminate_message # << >>
        /\ node_result[1].messages = << >>
        /\ node_result[1].loop_step = 0
        /\ graph_pc \in { "END", "idle" }

\* The position in ms of its j-th message that is not a tool message.
KeptMessageAt(ms, j) ==
    CHOOSE i \in 1..Len(ms) :
        /\ ms[i].type # "tool"
        /\ Cardinality({ h \in 1..i : ms[h].type # "tool" }) = j

\* C25: the list the finalizer passes to the model holds no tool message and no
\* message with tool calls: it is the state's list without its tool messages,
\* each AI message replaced by one of the same content without tool calls, the
\* other messages as they are and in their order, followed by the notice; the
\* state's list is as it was.
C25_FinalizerInputIsSanitized ==
    finalizer_call # None =>
        LET given == finalizer_call[1].state_messages
            passed == finalizer_call[1].messages
            kept == Cardinality({ h \in 1..Len(given) : given[h].type # "tool" })
        IN  /\ \A j \in 1..Len(passed) :
                   passed[j].type # "tool" /\ passed[j].tool_calls = << >>
            /\ Len(passed) = kept + 1
            /\ passed[Len(passed)] = force_msg
            /\ \A j \in 1..kept :
                   LET m == given[KeptMessageAt(given, j)]
                   IN  IF m.type = "ai"
                       THEN passed[j] = AIMessage(m.content)
                       ELSE passed[j] = m
            /\ SubSeq(checkpoint.messages, 1, Len(given)) = given

\* The finalizer was given a history with a tool message, an AI message with tool
\* calls, an AI message without and a human message.
C25_Witness ==
    /\ finalizer_call # None
    /\ LET given == finalizer_call[1].state_messages
       IN  /\ \E i \in 1..Len(given) : given[i].type = "tool"
           /\ \E i \in 1..Len(given) : given[i].type = "ai" /\ given[i].tool_calls # << >>
           /\ \E i \in 1..Len(given) : given[i].type = "ai" /\ given[i].tool_calls = << >>
           /\ \E i \in 1..Len(given) : given[i].type = "human"

\* C26: when no prompt is being handled, the session history is the greeting
\* followed by one user entry and one assistant entry per prompt, and the last
\* assistant entry is the terminate_message after an error, and otherwise the
\* content of the finalizer's message or of the agent's message without tool calls.
C26_OneUserAndOneAssistantEntryPerPrompt ==
    (graph_pc \in { "idle", "crashed" }) =>
        /\ Len(session_messages) = 1 + 2 * turns
        /\ \A n \in 1..turns :
               /\ session_messages[2 * n].role = "user"
               /\ session_messages[2 * n].content = PromptOf(n)
               /\ session_messages[2 * n + 1].role = "assistant"
        /\ turns > 0 =>
               session_messages[Len(session_messages)].content =
                   IF ended_by = "error"
                   THEN checkpoint.terminate_message
                   ELSE checkpoint.messages[Len(checkpoint.messages)].content

====
